---- MODULE Spec2Model ----
(***************************************************************************)
(* Extraction and normalisation pipeline of the Makro product scraper      *)
(* (src/scraper_makro.py): the Path Resolver get_value, the field          *)
(* handlers, and the Record Assembler parser_product_details.              *)
(*                                                                         *)
(* JSON / Python values are tagged tuples:                                 *)
(*   <<"none">>            None                                            *)
(*   <<"num", n, d>>       the number n/d, d > 0, in lowest terms          *)
(*   <<"str", cs>>         a string, cs the sequence of its characters     *)
(*   <<"list", xs>>        a list                                          *)
(*   <<"dict", f>>         a mapping, f a function from keys to values     *)
(*   <<"exc", kind>>       the outcome "an exception of this kind is       *)
(*                         raised" of an evaluation                        *)
(* Dictionary keys are atomic names.  Characters of a string are           *)
(* one-character strings.  Python bool values are not in the input         *)
(* domains.                                                                *)
(***************************************************************************)
EXTENDS Integers, Sequences, FiniteSets, TLC

VARIABLES
    doc,         \* doc[p]: the raw product document `result` of extraction p
    items,       \* items[p]: the record in progress of extraction p
    pc,          \* pc[p]: index of the next fields_map entry, "link", "done" or "raised"
    exc,         \* exc[p]: kind of the exception that escaped extraction p, or "none"
    CALCULATED,  \* the module-level audit flag
    logged,      \* logged[p]: the reconstructed-price diagnostic was written for p
    gvObj,       \* get_value call under test: the document
    gvChain,     \* get_value call under test: the key chain (the caller's list)
    gvOut,       \* get_value call under test: <<"idle">>, or the outcome
    entry,       \* entry[p]: the value of CALCULATED when extraction p was entered
    memo,        \* the records returned so far, by <<document, flag at entry>>
    listing,     \* parser_products: the detail responses of the listed ids, in order
    cursor,      \* parser_products: the position of key_id in the listing
    output_items,\* parser_products: the records collected so far
    paths,       \* paths[p]: the key chains held by fields_map in extraction p
    rq,          \* set_request: its locals and its outcome
    sc,          \* scrape_categories: its locals for one category
    drv,         \* main: the steps run and the exit status
    eg           \* _extract_grams call under test: the name and the outcome

gvVars == <<gvObj, gvChain, gvOut>>
callerVars == <<entry, memo, listing, cursor, output_items>>

vars == <<doc, items, pc, exc, CALCULATED, logged, gvVars, callerVars, paths, rq, sc, drv, eg>>

----------------------------------------------------------------------------
(* Values *)

None == <<"none">>
Str(cs) == <<"str", cs>>
List(xs) == <<"list", xs>>
Dict(f) == <<"dict", f>>
Exc(kind) == <<"exc", kind>>

Kind(v) == v[1]
IsNone(v) == Kind(v) = "none"
IsNum(v) == Kind(v) = "num"
IsStr(v) == Kind(v) = "str"
IsList(v) == Kind(v) = "list"
IsDict(v) == Kind(v) = "dict"
IsExc(v) == Kind(v) = "exc"

EmptyStr == Str(<<>>)
EmptyDict == Dict(<<>>)
EmptyList == List(<<>>)

Abs(n) == IF n < 0 THEN -n ELSE n

RECURSIVE Gcd(_, _)
Gcd(a, b) == IF b = 0 THEN a ELSE Gcd(b, a % b)

\* The number n/d (d # 0) in lowest terms with a positive denominator.
Num(n, d) ==
    LET g == Gcd(Abs(n), Abs(d))
        s == IF d < 0 THEN -1 ELSE 1
    IN  <<"num", (s * n) \div g, (s * d) \div g>>

NumInt(n) == <<"num", n, 1>>

\* Python truthiness (bool(v)).
Truthy(v) ==
    CASE IsNone(v) -> FALSE
      [] IsNum(v)  -> v[2] # 0
      [] IsStr(v)  -> Len(v[2]) > 0
      [] IsList(v) -> Len(v[2]) > 0
      [] IsDict(v) -> DOMAIN v[2] # {}
      [] OTHER     -> TRUE

\* isinstance(v, (int, float))
IsNumeric(v) == IsNum(v)

----------------------------------------------------------------------------
(* Arithmetic as Python evaluates it: TypeError on a non-numeric operand,  *)
(* ZeroDivisionError on a zero divisor.  An operand that is already an     *)
(* exception propagates (the operand's evaluation raised first).           *)

PyMul(a, b) ==
    IF IsExc(a) THEN a
    ELSE IF IsExc(b) THEN b
    ELSE IF IsNum(a) /\ IsNum(b) THEN Num(a[2] * b[2], a[3] * b[3])
    ELSE Exc("TypeError")

PyDiv(a, b) ==
    IF IsExc(a) THEN a
    ELSE IF IsExc(b) THEN b
    ELSE IF ~(IsNum(a) /\ IsNum(b)) THEN Exc("TypeError")
    ELSE IF b[2] = 0 THEN Exc("ZeroDivisionError")
    ELSE Num(a[2] * b[3], a[3] * b[2])

PySub(a, b) ==
    IF IsExc(a) THEN a
    ELSE IF IsExc(b) THEN b
    ELSE IF IsNum(a) /\ IsNum(b) THEN Num(a[2] * b[3] - b[2] * a[3], a[3] * b[3])
    ELSE Exc("TypeError")

\* x * 1000 with the int literal on the right: a str or list operand is
\* repeated and stays a str or list (the division that follows reads only
\* its type, so the repetition is not spelled out); None and dict raise
\* TypeError.
PyTimes1000(a) ==
    IF IsExc(a) THEN a
    ELSE IF IsNum(a) THEN Num(a[2] * 1000, a[3])
    ELSE IF IsStr(a) \/ IsList(a) THEN a
    ELSE Exc("TypeError")

\* round(x, 2): to the nearest hundredth, a tie going to the even hundredth.
PyRound2(a) ==
    IF IsExc(a) THEN a
    ELSE IF ~IsNum(a) THEN Exc("TypeError")
    ELSE LET n == 100 * a[2]
             d == a[3]
             q == n \div d
             r == n - q * d
             up == (2 * r > d) \/ (2 * r = d /\ q % 2 = 1)
         IN  Num(IF up THEN q + 1 ELSE q, 100)

----------------------------------------------------------------------------
(* Strings *)

Digits == {"0", "1", "2", "3", "4", "5", "6", "7", "8", "9"}

DigitVal(c) ==
    CASE c = "0" -> 0 [] c = "1" -> 1 [] c = "2" -> 2 [] c = "3" -> 3
      [] c = "4" -> 4 [] c = "5" -> 5 [] c = "6" -> 6 [] c = "7" -> 7
      [] c = "8" -> 8 [] c = "9" -> 9

\* str.strip(): leading and trailing spaces removed.
RECURSIVE Strip(_)
Strip(cs) ==
    IF cs = <<>> THEN cs
    ELSE IF Head(cs) = " " THEN Strip(Tail(cs))
    ELSE IF cs[Len(cs)] = " " THEN Strip(SubSeq(cs, 1, Len(cs) - 1))
    ELSE cs

\* The number of leading digits of cs.
RECURSIVE DigitRun(_)
DigitRun(cs) ==
    IF cs # <<>> /\ Head(cs) \in Digits THEN 1 + DigitRun(Tail(cs)) ELSE 0

\* The value of a sequence of digits.
RECURSIVE DigitsVal(_)
DigitsVal(cs) ==
    IF cs = <<>> THEN 0 ELSE 10 * DigitsVal(SubSeq(cs, 1, Len(cs) - 1)) + DigitVal(cs[Len(cs)])

RECURSIVE Pow10(_)
Pow10(k) == IF k = 0 THEN 1 ELSE 10 * Pow10(k - 1)

\* The number written by digits `ip`, a point and digits `fp`.
Decimal(ip, fp) == Num(DigitsVal(ip) * Pow10(Len(fp)) + DigitsVal(fp), Pow10(Len(fp)))

\* float(s) of a string: surrounding spaces are ignored; digits with an
\* optional fraction ("2", "2.5", "2.", ".5") parse, anything else over the
\* model's alphabet is a ValueError.
FloatOfStr(cs) ==
    LET t  == Strip(cs)
        n1 == DigitRun(t)
        r1 == SubSeq(t, n1 + 1, Len(t))
    IN  IF r1 = <<>>
        THEN IF n1 > 0 THEN Decimal(t, <<>>) ELSE Exc("ValueError")
        ELSE IF Head(r1) # "." THEN Exc("ValueError")
        ELSE LET fp == Tail(r1)
             IN  IF DigitRun(fp) # Len(fp) \/ (n1 = 0 /\ fp = <<>>)
                 THEN Exc("ValueError")
                 ELSE Decimal(SubSeq(t, 1, n1), fp)

\* float(v)
PyFloat(v) ==
    IF IsExc(v) THEN v
    ELSE IF IsNum(v) THEN v
    ELSE IF IsStr(v) THEN FloatOfStr(v[2])
    ELSE Exc("TypeError")

----------------------------------------------------------------------------
(* Path Resolver *)

\* `key in obj` for a str obj: the key's text is a substring.  A key of the
\* model is one symbol: it occurs in a string exactly as that character.
StrHasKey(cs, key) == \E i \in 1..Len(cs) : cs[i] = key

\* `key in obj` for a list obj: some element equals the key string.
ListHasKey(xs, key) == \E i \in 1..Len(xs) : xs[i] = Str(<<key>>)

\* get_value(obj, chain): [ret |-> the value returned or the exception
\* raised, chain |-> what is left of the caller's list afterwards].
RECURSIVE GetValueRun(_, _)
GetValueRun(obj, chain) ==
    IF ~Truthy(obj) \/ chain = <<>>
    THEN [ret |-> EmptyStr, chain |-> chain]
    ELSE LET key  == Head(chain)
             rest == Tail(chain)
         IN  CASE IsDict(obj) ->
                    IF key \in DOMAIN obj[2]
                    THEN IF rest # <<>>
                         THEN GetValueRun(obj[2][key], rest)
                         ELSE [ret |-> obj[2][key], chain |-> rest]
                    ELSE [ret |-> EmptyStr, chain |-> rest]
               [] IsStr(obj) ->
                    IF StrHasKey(obj[2], key)
                    THEN [ret |-> Exc("TypeError"), chain |-> rest]
                    ELSE [ret |-> EmptyStr, chain |-> rest]
               [] IsList(obj) ->
                    IF ListHasKey(obj[2], key)
                    THEN [ret |-> Exc("TypeError"), chain |-> rest]
                    ELSE [ret |-> EmptyStr, chain |-> rest]
               [] OTHER -> [ret |-> Exc("TypeError"), chain |-> rest]

get_value(obj, chain) == GetValueRun(obj, chain).ret

----------------------------------------------------------------------------
(* get_value on its own: the inputs of one call, and the call. *)

MaxDepth == 2
MaxChain == 2

GvKeys == {"a", "b"}

GvLeaves ==
    { None, EmptyStr, Str(<<"a">>), Str(<<"x", "b">>), NumInt(0), NumInt(5),
      EmptyList, List(<<Str(<<"a">>)>>), EmptyDict }

\* Documents nested at most d deep.
RECURSIVE GvObjs(_)
GvObjs(d) ==
    IF d = 0 THEN GvLeaves
    ELSE GvLeaves
         \cup { Dict([k \in {key} |-> o]) : key \in GvKeys, o \in GvObjs(d - 1) }
         \cup { Dict([k \in GvKeys |-> IF k = "a" THEN o ELSE NumInt(5)]) : o \in GvObjs(d - 1) }

\* Key chains of length at most n.
RECURSIVE GvChains(_)
GvChains(n) ==
    IF n = 0 THEN { <<>> }
    ELSE GvChains(n - 1) \cup { <<key>> \o c : key \in GvKeys, c \in { x \in GvChains(n - 1) : Len(x) = n - 1 } }

Idle == <<"idle">>

InitGetValue ==
    /\ gvObj \in GvObjs(MaxDepth)
    /\ gvChain \in GvChains(MaxChain)
    /\ gvOut = Idle
    /\ doc = <<>>
    /\ items = <<>>
    /\ pc = <<>>
    /\ exc = <<>>
    /\ CALCULATED = FALSE
    /\ logged = <<>>
    /\ entry = <<>>
    /\ memo = <<>>
    /\ listing = <<>>
    /\ cursor = 1
    /\ output_items = <<>>
    /\ paths = <<>>
    /\ rq = Idle
    /\ sc = Idle
    /\ drv = Idle
    /\ eg = Idle

\* One call get_value(gvObj, gvChain): the outcome is kept with the chain as
\* it was given, and the caller's list is left as the call leaves it.
GetValueCall ==
    /\ gvOut = Idle
    /\ LET r == GetValueRun(gvObj, gvChain)
       IN  /\ gvOut' = <<"returned", r.ret, gvChain>>
           /\ gvChain' = r.chain
    /\ UNCHANGED <<gvObj, doc, items, pc, exc, CALCULATED, logged, callerVars, paths, rq, sc, drv, eg>>

NextGetValue == GetValueCall

SpecGetValue == InitGetValue /\ [][NextGetValue]_vars

\* The value reached by indexing obj successively by the keys of chain; the
\* empty string when a key is absent at the current level, the current
\* level is not a mapping, or the chain or the document is empty.
RECURSIVE Reached(_, _)
Reached(obj, chain) ==
    IF chain = <<>> \/ ~IsDict(obj) THEN EmptyStr
    ELSE IF Head(chain) \notin DOMAIN obj[2] THEN EmptyStr
    ELSE IF Len(chain) = 1 THEN obj[2][Head(chain)]
    ELSE Reached(obj[2][Head(chain)], Tail(chain))

\* C4: get_value returns the value reached by indexing the document by each
\* key of the chain in turn, and returns "" without raising when a key is
\* absent, an intermediate value is not indexable (scalar, string, list), or
\* the chain or the document is empty.
C4_GetValueResolvesOrSentinel ==
    gvOut # Idle => gvOut[2] = Reached(gvObj, gvOut[3])

----------------------------------------------------------------------------
(* Python helpers of the field handlers.                                   *)
(* A string is written symbol by symbol.  A symbol is one character, or a  *)
(* whole word (holding no space, digit, "/" or "."), always written the    *)
(* same way, where the code only compares, copies or joins it.             *)

\* d.get(k, dflt) of a mapping d.
DGet(d, k, dflt) == IF k \in DOMAIN d[2] THEN d[2][k] ELSE dflt

\* The keys of the model's mappings in the order a document lists them.
AllKeys ==
    << "brandName", "variants", "0032", "description", "categories",
       "bundleSelector", "bundles", "0021", "customerDisplayId", "stores",
       "00057", "supplier", "supplierName", "sellingPriceInfo", "finalPrice",
       "shelfPrice", "basePrice", "kgGross", "promotionLabels",
       "summaryDnrInfo", "name", "levels", "basePriceData", "pricePerUnit",
       "netPrice", "details", "longDescription", "features",
       "nutritionalTable", "characteristicsTable", "contentData",
       "weightPerPiece", "netPieceWeight", "netContentVolume", "selector",
       "contentSize", "isWeightArticle", "value", "uom", "label", "leafs",
       "rows", "rowLabel", "cells", "unitOfMeasure", "text", "a", "b" >>

RECURSIVE KeysIn(_, _)
KeysIn(ks, f) ==
    IF ks = <<>> THEN <<>>
    ELSE (IF Head(ks) \in DOMAIN f THEN <<Head(ks)>> ELSE <<>>) \o KeysIn(Tail(ks), f)

\* `for x in v`: the list of the elements visited, or TypeError.
Iter(v) ==
    CASE IsList(v) -> v
      [] IsStr(v)  -> List([i \in 1..Len(v[2]) |-> Str(<<v[2][i]>>)])
      [] IsDict(v) -> LET ks == KeysIn(AllKeys, v[2])
                      IN  List([i \in 1..Len(ks) |-> Str(<<ks[i]>>)])
      [] OTHER     -> Exc("TypeError")

\* sep.join(xs) of a list of values: TypeError unless every one is a str.
RECURSIVE Join(_, _)
Join(sep, xs) ==
    IF xs = <<>> THEN EmptyStr
    ELSE IF ~IsStr(Head(xs)) THEN Exc("TypeError")
    ELSE IF Len(xs) = 1 THEN Head(xs)
    ELSE LET r == Join(sep, Tail(xs))
         IN  IF IsExc(r) THEN r ELSE Str(Head(xs)[2] \o sep \o r[2])

\* s.replace(" / ", "/")
RECURSIVE ReplaceSlash(_)
ReplaceSlash(cs) ==
    IF cs = <<>> THEN cs
    ELSE IF Len(cs) >= 3 /\ cs[1] = " " /\ cs[2] = "/" /\ cs[3] = " "
    THEN <<"/">> \o ReplaceSlash(SubSeq(cs, 4, Len(cs)))
    ELSE <<Head(cs)>> \o ReplaceSlash(Tail(cs))

\* s.replace(" ", "-").replace("/", "-")
Dashed(cs) == [i \in 1..Len(cs) |-> IF cs[i] \in {" ", "/"} THEN "-" ELSE cs[i]]

\* re.sub(r'\d+', "", s)
RECURSIVE DropDigits(_)
DropDigits(cs) ==
    IF cs = <<>> THEN cs
    ELSE (IF Head(cs) \in Digits THEN <<>> ELSE <<Head(cs)>>) \o DropDigits(Tail(cs))

\* " ".join(s.split()): runs of spaces collapsed, the ends trimmed.
RECURSIVE Collapse(_)
Collapse(cs) ==
    LET t == Strip(cs)
    IN  IF t = <<>> THEN t
        ELSE IF Head(t) # " " /\ Len(t) >= 2 /\ t[2] = " "
        THEN <<Head(t), " ">> \o Collapse(SubSeq(t, 3, Len(t)))
        ELSE <<Head(t)>> \o Collapse(Tail(t))

\* s.lower(), on the symbols that spell "weight".
LowerSym(c) ==
    CASE c = "WEIGHT" -> "weight" [] c = "Weight" -> "weight" [] OTHER -> c

Lower(cs) == [i \in 1..Len(cs) |-> LowerSym(cs[i])]

----------------------------------------------------------------------------
(* Field handlers without cross-field reads.  Each gives the value the     *)
(* handler returns, or the exception it raises.                            *)

_handle_category_in_supermarket(val) ==
    IF Truthy(val) /\ IsList(val) /\ Len(val[2]) > 0
    THEN LET first == val[2][1]
         IN  IF ~IsDict(first) THEN Exc("AttributeError")
             ELSE LET name == DGet(first, "name", EmptyStr)
                  IN  IF ~IsStr(name) THEN Exc("AttributeError")
                      ELSE Str(ReplaceSlash(name[2]))
    ELSE None

MAKRO == Str(<<"MAKRO">>)

_handle_brand(val) == IF Truthy(val) THEN val ELSE MAKRO

_handle_manufacturer(val) ==
    IF Truthy(val)
    THEN IF ~IsStr(val) THEN Exc("AttributeError")
         ELSE Dict([k \in {"name", "address"} |->
                        IF k = "name" THEN Str(Strip(val[2])) ELSE None])
    ELSE None

WEIGHT == Str(<<"WEIGHT">>)

\* str(val) of a value that is not a str never spells "weight".
_handle_is_weight_article(val) ==
    IF IsStr(val) /\ Strip(Lower(val[2])) = <<"weight">> THEN WEIGHT ELSE None

IngredientsLabel == Str(<<"Listado de ingredientes">>)

\* The inner loop over leafs: the list of ingredients so far, or the exception.
RECURSIVE IngLeafs(_, _)
IngLeafs(leafs, acc) ==
    IF leafs = <<>> THEN List(acc)
    ELSE LET leaf == Head(leafs)
         IN  IF ~IsDict(leaf) THEN Exc("AttributeError")
             ELSE LET value == DGet(leaf, "label", None)
                  IN  IngLeafs(Tail(leafs), IF Truthy(value) THEN Append(acc, value) ELSE acc)

\* The outer loop over the data blocks.
RECURSIVE IngBlocks(_, _)
IngBlocks(blocks, acc) ==
    IF blocks = <<>> THEN List(acc)
    ELSE LET data_dict == Head(blocks)
         IN  IF ~IsDict(data_dict) THEN Exc("AttributeError")
             ELSE IF DGet(data_dict, "label", None) = IngredientsLabel
             THEN LET leafs == Iter(DGet(data_dict, "leafs", EmptyList))
                  IN  IF IsExc(leafs) THEN leafs
                      ELSE LET r == IngLeafs(leafs[2], acc)
                           IN  IF IsExc(r) THEN r ELSE IngBlocks(Tail(blocks), r[2])
             ELSE IngBlocks(Tail(blocks), acc)

_handle_ingredients(val) ==
    LET blocks == Iter(val)
    IN  IF IsExc(blocks) THEN blocks
        ELSE LET r == IngBlocks(blocks[2], <<>>)
             IN  IF IsExc(r) THEN r
                 ELSE IF r[2] # <<>> THEN Join(<<" ">>, r[2])
                 ELSE None

\* The label -> canonical key dictionary `fields` of _handle_nutrition.
NutritionLabels ==
    { "Valor energético kcal", "Proteínas", "Grasas", "de los cuales azúcares",
      "Hidratos de carbono", "Fibra alimentaria", "de las cuales saturadas", "Sal" }

NutritionKey(label) ==
    CASE label = "Valor energético kcal"   -> "calories"
      [] label = "Proteínas"               -> "protein"
      [] label = "Grasas"                  -> "fat"
      [] label = "de los cuales azúcares"  -> "sugars"
      [] label = "Hidratos de carbono"     -> "carbohydrates"
      [] label = "Fibra alimentaria"       -> "fiber"
      [] label = "de las cuales saturadas" -> "saturatedFattyAcids"
      [] label = "Sal"                     -> "salt"

\* fields.get(label): the key as a str, None when the label is not in the
\* dictionary, TypeError when the label is unhashable (a list or a mapping).
FieldsGet(label) ==
    IF IsList(label) \/ IsDict(label) THEN Exc("TypeError")
    ELSE IF IsStr(label) /\ Len(label[2]) = 1 /\ label[2][1] \in NutritionLabels
    THEN Str(<<NutritionKey(label[2][1])>>)
    ELSE None

\* f with f[k] set to v.
Put(f, k, v) == [x \in DOMAIN f \cup {k} |-> IF x = k THEN v ELSE f[x]]

\* The loop over rows: the mapping built so far, or the exception.
RECURSIVE NutRows(_, _)
NutRows(rows, acc) ==
    IF rows = <<>> THEN Dict(acc)
    ELSE LET row == Head(rows)
         IN  IF ~IsDict(row) THEN Exc("AttributeError")
             ELSE LET key == FieldsGet(DGet(row, "rowLabel", None))
                      aux == DGet(row, "cells", EmptyList)
                  IN  IF IsExc(key) THEN key
                      ELSE IF ~Truthy(key) \/ ~Truthy(aux) THEN NutRows(Tail(rows), acc)
                      \* aux[0]
                      ELSE IF IsDict(aux) THEN Exc("KeyError")
                      ELSE IF IsNum(aux) THEN Exc("TypeError")
                      ELSE IF IsList(aux) /\ IsDict(aux[2][1])
                      THEN NutRows(Tail(rows),
                               Put(acc, key[2][1],
                                   Dict([k \in {"value", "unit"} |->
                                       IF k = "value" THEN DGet(aux[2][1], "value", None)
                                       ELSE DGet(aux[2][1], "unitOfMeasure", None)])))
                      ELSE NutRows(Tail(rows), acc)

\* _handle_nutrition starting from a mapping that holds every canonical key
\* with an empty measurement (a zero-filled table).
NutritionZeroFilled(val) ==
    IF ~IsDict(val) THEN None
    ELSE LET rows == Iter(DGet(val, "rows", EmptyList))
             blank == Dict([k \in {"value", "unit"} |-> None])
         IN  IF IsExc(rows) THEN rows
             ELSE NutRows(rows[2], [k \in { NutritionKey(label) : label \in NutritionLabels } |-> blank])

_handle_nutrition(val) ==
    IF ~IsDict(val) THEN None
    ELSE LET rows == Iter(DGet(val, "rows", EmptyList))
         IN  IF IsExc(rows) THEN rows ELSE NutRows(rows[2], <<>>)

\* cell[key].strip() for key in cell if cell.get(key): the list of the
\* stripped sub-values, or the exception.
RECURSIVE CellValues(_, _)
CellValues(cell, keys) ==
    IF keys = <<>> THEN EmptyList
    ELSE IF ~IsDict(cell) THEN Exc("AttributeError")
    ELSE LET v == cell[2][Head(keys)[2][1]]
         IN  IF ~Truthy(v) THEN CellValues(cell, Tail(keys))
             ELSE IF ~IsStr(v) THEN Exc("AttributeError")
             ELSE LET r == CellValues(cell, Tail(keys))
                  IN  IF IsExc(r) THEN r ELSE List(<<Str(Strip(v[2]))>> \o r[2])

\* The loop over the cells of one row.
RECURSIVE CharCells(_, _, _)
CharCells(label, cells, acc) ==
    IF cells = <<>> THEN List(acc)
    ELSE LET cell == Head(cells)
             keys == Iter(cell)
         IN  IF IsExc(keys) THEN keys
             ELSE LET vs == CellValues(cell, keys[2])
                  IN  IF IsExc(vs) THEN vs
                      ELSE LET value == Strip(Join(<<" ">>, vs[2])[2])
                           IN  CharCells(label, Tail(cells),
                                   IF value # <<>>
                                   THEN Append(acc, Str(label \o <<":", " ">> \o value))
                                   ELSE acc)

\* The loop over rows.
RECURSIVE CharRows(_, _)
CharRows(rows, acc) ==
    IF rows = <<>> THEN List(acc)
    ELSE LET row == Head(rows)
         IN  IF ~IsDict(row) THEN Exc("AttributeError")
             ELSE LET raw == DGet(row, "rowLabel", EmptyStr)
                  IN  IF ~IsStr(raw) THEN Exc("AttributeError")
                      ELSE LET label == Strip(raw[2])
                               cells == DGet(row, "cells", EmptyList)
                           IN  IF label = <<>> THEN CharRows(Tail(rows), acc)
                               ELSE LET it == Iter(cells)
                                    IN  IF IsExc(it) THEN it
                                        ELSE LET r == CharCells(label, it[2], acc)
                                             IN  IF IsExc(r) THEN r
                                                 ELSE CharRows(Tail(rows), r[2])

_handle_characteristics(val) ==
    IF ~IsDict(val) THEN None
    ELSE LET rows == DGet(val, "rows", None)
             it   == IF Truthy(rows) THEN Iter(rows) ELSE EmptyList
         IN  IF IsExc(it) THEN it
             ELSE LET r == CharRows(it[2], <<>>)
                  IN  IF IsExc(r) THEN r
                      ELSE IF r[2] # <<>>
                      THEN Str(Collapse(Join(<<".", " ">>, r[2])[2]))
                      ELSE None

----------------------------------------------------------------------------
(* Measurement Normalizer *)

Bundle == <<"variants", "0032", "bundles", "0021">>
Store == Bundle \o <<"stores", "00057">>
SellingPriceInfo == Store \o <<"sellingPriceInfo">>

GRAM == Str(<<"GRAM">>)
ML == Str(<<"ML">>)
KG == Str(<<"KG">>)
L == Str(<<"L">>)

\* (value / 1000) if value else 0
Thousandth(value) ==
    IF Truthy(value) THEN PyDiv(value, NumInt(1000)) ELSE NumInt(0)

\* x or dflt
Or(x, dflt) == IF Truthy(x) THEN x ELSE dflt

Measurement(format, value, unit) ==
    IF IsExc(value) THEN value
    ELSE Dict([k \in {"format", "value", "unit"} |->
                  CASE k = "format" -> format [] k = "value" -> value [] OTHER -> unit])

\* parser_measuring keeping grams and millilitres as they come.
ParserMeasuringUnscaled(value_dict, result) ==
    LET format_raw == get_value(result, <<"variants", "0032", "bundleSelector", "0021">>)
        format_value ==
            IF IsExc(format_raw) THEN format_raw
            ELSE IF ~Truthy(format_raw) THEN format_raw
            ELSE IF ~IsStr(format_raw) THEN Exc("TypeError")
            ELSE Str(Strip(DropDigits(format_raw[2])))
        other_value_dict == get_value(result, Bundle \o <<"contentData", "netContentVolume">>)
        chosen == IF Truthy(other_value_dict) THEN other_value_dict ELSE value_dict
    IN  IF IsExc(format_value) THEN format_value
        ELSE IF IsExc(other_value_dict) THEN other_value_dict
        ELSE IF ~IsDict(chosen) THEN Exc("AttributeError")
        ELSE LET value == DGet(chosen, "value", None)
                 unit  == DGet(chosen, "uom", None)
             IN  CASE unit = GRAM -> Measurement(format_value, Or(value, NumInt(0)), KG)
                   [] unit = ML   -> Measurement(format_value, Or(value, NumInt(0)), L)
                   [] unit \in {KG, L} -> Measurement(format_value, Or(value, NumInt(0)), unit)
                   [] OTHER -> Measurement(format_value, Or(value, NumInt(0)), Or(unit, EmptyStr))

\* parser_measuring normalising the pair it is called with, whatever
\* netContentVolume holds.
ParserMeasuringOfArgument(value_dict, result) ==
    LET format_raw == get_value(result, <<"variants", "0032", "bundleSelector", "0021">>)
        format_value ==
            IF IsExc(format_raw) THEN format_raw
            ELSE IF ~Truthy(format_raw) THEN format_raw
            ELSE IF ~IsStr(format_raw) THEN Exc("TypeError")
            ELSE Str(Strip(DropDigits(format_raw[2])))
        chosen == value_dict
    IN  IF IsExc(format_value) THEN format_value
        ELSE IF ~IsDict(chosen) THEN Exc("AttributeError")
        ELSE LET value == DGet(chosen, "value", None)
                 unit  == DGet(chosen, "uom", None)
             IN  CASE unit = GRAM -> Measurement(format_value, Thousandth(value), KG)
                   [] unit = ML   -> Measurement(format_value, Thousandth(value), L)
                   [] unit \in {KG, L} -> Measurement(format_value, Or(value, NumInt(0)), unit)
                   [] OTHER -> Measurement(format_value, Or(value, NumInt(0)), Or(unit, EmptyStr))

parser_measuring(value_dict, result) ==
    LET format_raw == get_value(result, <<"variants", "0032", "bundleSelector", "0021">>)
        format_value ==
            IF IsExc(format_raw) THEN format_raw
            ELSE IF ~Truthy(format_raw) THEN format_raw
            ELSE IF ~IsStr(format_raw) THEN Exc("TypeError")
            ELSE Str(Strip(DropDigits(format_raw[2])))
        other_value_dict == get_value(result, Bundle \o <<"contentData", "netContentVolume">>)
        chosen == IF Truthy(other_value_dict) THEN other_value_dict ELSE value_dict
    IN  IF IsExc(format_value) THEN format_value
        ELSE IF IsExc(other_value_dict) THEN other_value_dict
        ELSE IF ~IsDict(chosen) THEN Exc("AttributeError")
        ELSE LET value == DGet(chosen, "value", None)
                 unit  == DGet(chosen, "uom", None)
             IN  CASE unit = GRAM -> Measurement(format_value, Thousandth(value), KG)
                   [] unit = ML   -> Measurement(format_value, Thousandth(value), L)
                   [] unit \in {KG, L} -> Measurement(format_value, Or(value, NumInt(0)), unit)
                   [] OTHER -> Measurement(format_value, Or(value, NumInt(0)), Or(unit, EmptyStr))

\* _handle_measuring_unit consulting netPieceWeight before weightPerPiece.
MeasuringUnitPieceWeightFirst(val, result) ==
    LET fallback_val == get_value(result, Bundle \o <<"contentData", "netPieceWeight">>)
    IN  IF IsExc(fallback_val) THEN fallback_val
        ELSE IF Truthy(fallback_val) THEN parser_measuring(fallback_val, result)
        ELSE IF Truthy(val) THEN parser_measuring(val, result)
        ELSE None

_handle_measuring_unit(val, result) ==
    IF Truthy(val) THEN parser_measuring(val, result)
    ELSE LET fallback_val == get_value(result, Bundle \o <<"contentData", "netPieceWeight">>)
         IN  IF IsExc(fallback_val) THEN fallback_val
             ELSE IF Truthy(fallback_val) THEN parser_measuring(fallback_val, result)
             ELSE None

----------------------------------------------------------------------------
(* Promotion Evaluator *)

\* What a handler that writes the record leaves behind: the value returned
\* or the exception raised, the record, and the audit flag.
Outcome(ret, its, calc) == [ret |-> ret, items |-> its, calc |-> calc]

\* items.get(k, dflt)
IGet(its, k, dflt) == IF k \in DOMAIN its THEN its[k] ELSE dflt

\* measuringUnit.value * units as the handlers compute it (the value read
\* first, then float(units), then the product).
UnitCount(measuringUnit, its) ==
    LET measure_val == DGet(measuringUnit, "value", NumInt(1))
        units == PyFloat(IGet(its, "units", NumInt(1)))
    IN  PyMul(measure_val, units)

\* except (ZeroDivisionError, TypeError)
Caught(x) == IsExc(x) /\ x[2] \in {"ZeroDivisionError", "TypeError"}

\* _handle_offer_price discarding the unchanged offer price as soon as one
\* of the two promotion markers is missing (`or` in place of `and`).
OfferPriceNeedingBothMarkers(val, its, result, calc) ==
    LET its0 == Put(Put(its, "unitPriceWithOffer", None), "percentPromotion", None)
    IN  IF val = IGet(its0, "price", None)
        THEN LET promo_labels == get_value(result, SellingPriceInfo \o <<"promotionLabels">>)
                 levels == get_value(result, SellingPriceInfo \o <<"summaryDnrInfo", "levels">>)
             IN  IF IsExc(promo_labels) THEN Outcome(promo_labels, its0, calc)
                 ELSE IF IsExc(levels) THEN Outcome(levels, its0, calc)
                 ELSE IF ~Truthy(promo_labels) \/ ~Truthy(levels) THEN Outcome(None, its0, calc)
                 ELSE Outcome(val, its0, calc)
        ELSE LET shelf_price == IGet(its0, "price", NumInt(1))
                 percent == PyRound2(PySub(NumInt(1), PyDiv(val, shelf_price)))
                 its1 == IF IsExc(percent) THEN its0 ELSE Put(its0, "percentPromotion", percent)
                 measuringUnit == IGet(its1, "measuringUnit", EmptyDict)
                 unit_count == IF ~Truthy(measuringUnit) THEN NumInt(1)
                               ELSE UnitCount(measuringUnit, its1)
                 with_offer == PyRound2(PyDiv(val, unit_count))
             IN  IF IsExc(percent) /\ ~Caught(percent) THEN Outcome(percent, its0, calc)
                 ELSE IF ~IsExc(with_offer)
                 THEN Outcome(val, Put(its1, "unitPriceWithOffer", with_offer), calc)
                 ELSE IF Caught(with_offer) THEN Outcome(val, its1, calc)
                 ELSE Outcome(with_offer, its1, calc)

\* _handle_offer_price taking the ratio offer/shelf itself for the discount
\* fraction.
OfferPriceRatioAsPercent(val, its, result, calc) ==
    LET its0 == Put(Put(its, "unitPriceWithOffer", None), "percentPromotion", None)
    IN  IF val = IGet(its0, "price", None)
        THEN LET promo_labels == get_value(result, SellingPriceInfo \o <<"promotionLabels">>)
                 levels == get_value(result, SellingPriceInfo \o <<"summaryDnrInfo", "levels">>)
             IN  IF IsExc(promo_labels) THEN Outcome(promo_labels, its0, calc)
                 ELSE IF IsExc(levels) THEN Outcome(levels, its0, calc)
                 ELSE IF ~Truthy(promo_labels) /\ ~Truthy(levels) THEN Outcome(None, its0, calc)
                 ELSE Outcome(val, its0, calc)
        ELSE LET shelf_price == IGet(its0, "price", NumInt(1))
                 percent == PyRound2(PyDiv(val, shelf_price))
                 its1 == IF IsExc(percent) THEN its0 ELSE Put(its0, "percentPromotion", percent)
                 measuringUnit == IGet(its1, "measuringUnit", EmptyDict)
                 unit_count == IF ~Truthy(measuringUnit) THEN NumInt(1)
                               ELSE UnitCount(measuringUnit, its1)
                 with_offer == PyRound2(PyDiv(val, unit_count))
             IN  IF IsExc(percent) /\ ~Caught(percent) THEN Outcome(percent, its0, calc)
                 ELSE IF ~IsExc(with_offer)
                 THEN Outcome(val, Put(its1, "unitPriceWithOffer", with_offer), calc)
                 ELSE IF Caught(with_offer) THEN Outcome(val, its1, calc)
                 ELSE Outcome(with_offer, its1, calc)

\* _handle_offer_price discarding the offer price while the audit flag is up.
OfferPriceDroppedWhenFlagged(val, its, result, calc) ==
    LET its0 == Put(Put(its, "unitPriceWithOffer", None), "percentPromotion", None)
    IN  IF calc THEN Outcome(None, its0, calc)
        ELSE IF val = IGet(its0, "price", None)
        THEN LET promo_labels == get_value(result, SellingPriceInfo \o <<"promotionLabels">>)
                 levels == get_value(result, SellingPriceInfo \o <<"summaryDnrInfo", "levels">>)
             IN  IF IsExc(promo_labels) THEN Outcome(promo_labels, its0, calc)
                 ELSE IF IsExc(levels) THEN Outcome(levels, its0, calc)
                 ELSE IF ~Truthy(promo_labels) /\ ~Truthy(levels) THEN Outcome(None, its0, calc)
                 ELSE Outcome(val, its0, calc)
        ELSE LET shelf_price == IGet(its0, "price", NumInt(1))
                 percent == PyRound2(PySub(NumInt(1), PyDiv(val, shelf_price)))
                 its1 == IF IsExc(percent) THEN its0 ELSE Put(its0, "percentPromotion", percent)
                 measuringUnit == IGet(its1, "measuringUnit", EmptyDict)
                 unit_count == IF ~Truthy(measuringUnit) THEN NumInt(1)
                               ELSE UnitCount(measuringUnit, its1)
                 with_offer == PyRound2(PyDiv(val, unit_count))
             IN  IF IsExc(percent) /\ ~Caught(percent) THEN Outcome(percent, its0, calc)
                 ELSE IF ~IsExc(with_offer)
                 THEN Outcome(val, Put(its1, "unitPriceWithOffer", with_offer), calc)
                 ELSE IF Caught(with_offer) THEN Outcome(val, its1, calc)
                 ELSE Outcome(with_offer, its1, calc)

_handle_offer_price(val, its, result, calc) ==
    LET its0 == Put(Put(its, "unitPriceWithOffer", None), "percentPromotion", None)
    IN  IF val = IGet(its0, "price", None)
        THEN LET promo_labels == get_value(result, SellingPriceInfo \o <<"promotionLabels">>)
                 levels == get_value(result, SellingPriceInfo \o <<"summaryDnrInfo", "levels">>)
             IN  IF IsExc(promo_labels) THEN Outcome(promo_labels, its0, calc)
                 ELSE IF IsExc(levels) THEN Outcome(levels, its0, calc)
                 ELSE IF ~Truthy(promo_labels) /\ ~Truthy(levels) THEN Outcome(None, its0, calc)
                 ELSE Outcome(val, its0, calc)
        ELSE LET shelf_price == IGet(its0, "price", NumInt(1))
                 percent == PyRound2(PySub(NumInt(1), PyDiv(val, shelf_price)))
                 its1 == IF IsExc(percent) THEN its0 ELSE Put(its0, "percentPromotion", percent)
                 measuringUnit == IGet(its1, "measuringUnit", EmptyDict)
                 unit_count == IF ~Truthy(measuringUnit) THEN NumInt(1)
                               ELSE UnitCount(measuringUnit, its1)
                 with_offer == PyRound2(PyDiv(val, unit_count))
             IN  IF IsExc(percent) /\ ~Caught(percent) THEN Outcome(percent, its0, calc)
                 ELSE IF ~IsExc(with_offer)
                 THEN Outcome(val, Put(its1, "unitPriceWithOffer", with_offer), calc)
                 ELSE IF Caught(with_offer) THEN Outcome(val, its1, calc)
                 ELSE Outcome(with_offer, its1, calc)

----------------------------------------------------------------------------
(* Unit-Price Reconstructor *)

At(cs, i) == IF i >= 1 /\ i <= Len(cs) THEN cs[i] ELSE ""

\* The length of the match of \d+(?:\.\d+)? at position i of cs, 0 if none.
NumberAt(cs, i) ==
    LET n1 == DigitRun(SubSeq(cs, i, Len(cs)))
        n2 == DigitRun(SubSeq(cs, i + n1 + 1, Len(cs)))
    IN  IF n1 = 0 THEN 0
        ELSE IF At(cs, i + n1) = "." /\ n2 > 0 THEN n1 + 1 + n2
        ELSE n1

\* The length of the match of [kK]?[gG] at position i of cs, 0 if none.
UnitAt(cs, i) ==
    IF At(cs, i) \in {"k", "K"} /\ At(cs, i + 1) \in {"g", "G"} THEN 2
    ELSE IF At(cs, i) \in {"g", "G"} THEN 1
    ELSE 0

\* float() of a matched number.
NumberVal(cs, i, len) == FloatOfStr(SubSeq(cs, i, i + len - 1))

\* Every unit taken for grams.
MultiplierOfGrams(unitLen) == 1

\* 1000 if unit.lower() == 'kg' else 1
Multiplier(unitLen) == IF unitLen = 2 THEN 1000 ELSE 1

\* The first alternative, "<qty>x<weight><unit>", matches at position i.
MultiPackAt(cs, i) ==
    LET l1 == NumberAt(cs, i)
        l2 == NumberAt(cs, i + l1 + 1)
    IN  /\ l1 > 0
        /\ At(cs, i + l1) = "x"
        /\ l2 > 0
        /\ UnitAt(cs, i + l1 + 1 + l2) > 0

\* The second alternative, "<weight><unit>", matches at position i.
SinglePackAt(cs, i) ==
    LET l1 == NumberAt(cs, i) IN l1 > 0 /\ UnitAt(cs, i + l1) > 0

\* _extract_grams(denomination) of a str: re.search takes the leftmost
\* position where an alternative matches, the first alternative first.
ExtractGrams(cs) ==
    LET hits == { i \in 1..Len(cs) : MultiPackAt(cs, i) \/ SinglePackAt(cs, i) }
    IN  IF hits = {} THEN NumInt(1000)
        ELSE LET i  == CHOOSE h \in hits : \A g \in hits : h <= g
                 l1 == NumberAt(cs, i)
                 l2 == NumberAt(cs, i + l1 + 1)
             IN  IF MultiPackAt(cs, i)
                 THEN PyMul(PyMul(NumberVal(cs, i, l1), NumberVal(cs, i + l1 + 1, l2)),
                            NumInt(Multiplier(UnitAt(cs, i + l1 + 1 + l2))))
                 ELSE PyMul(NumberVal(cs, i, l1), NumInt(Multiplier(UnitAt(cs, i + l1))))

\* _extract_grams(denomination): re.search raises TypeError unless it is a str.
_extract_grams(denomination) ==
    IF IsStr(denomination) THEN ExtractGrams(denomination[2]) ELSE Exc("TypeError")

AltUnitPricePath == SellingPriceInfo \o <<"basePriceData", "pricePerUnit", "netPrice">>

\* The body of the try block: the unit price computed, or the exception.
ComputedUnitPrice(its) ==
    LET mu == IGet(its, "measuringUnit", None)
        measure_val == IF Truthy(mu) THEN DGet(mu, "value", NumInt(1)) ELSE NumInt(1)
        unit_count  == PyMul(measure_val, PyFloat(IGet(its, "units", NumInt(1))))
        price_w_tax == IGet(its, "priceWithTax", NumInt(0))
        grams       == _extract_grams(IGet(its, "denomination", None))
    IN  IF IsExc(unit_count) THEN unit_count
        ELSE IF IsExc(grams) THEN grams
        ELSE PyRound2(PyDiv(PyTimes1000(price_w_tax), PyMul(grams, unit_count)))

\* _handle_kg_gross consulting the alternate net price before kgGross.
KgGrossAlternateFirst(val, its, result, calc) ==
    LET alt_unit_price == get_value(result, AltUnitPricePath)
    IN  IF IsExc(alt_unit_price) THEN Outcome(alt_unit_price, its, calc)
        ELSE IF IsNumeric(alt_unit_price)
        THEN Outcome(val, Put(its, "unitPrice", alt_unit_price), calc)
        ELSE IF ~IsNone(val) THEN Outcome(val, Put(its, "unitPrice", val), calc)
        ELSE LET computed == ComputedUnitPrice(its)
             IN  IF ~IsExc(computed)
                 THEN Outcome(val, Put(its, "unitPrice", computed), TRUE)
                 ELSE IF Caught(computed)
                 THEN Outcome(val, Put(its, "unitPrice", None), calc)
                 ELSE Outcome(computed, its, calc)

\* _handle_kg_gross raising the audit flag on entering the computation,
\* whether or not it yields a price.
KgGrossFlaggedOnEntry(val, its, result, calc) ==
    IF IsNone(val)
    THEN LET alt_unit_price == get_value(result, AltUnitPricePath)
         IN  IF IsExc(alt_unit_price) THEN Outcome(alt_unit_price, its, calc)
             ELSE IF IsNumeric(alt_unit_price)
             THEN Outcome(val, Put(its, "unitPrice", alt_unit_price), calc)
             ELSE LET computed == ComputedUnitPrice(its)
                  IN  IF ~IsExc(computed)
                      THEN Outcome(val, Put(its, "unitPrice", computed), TRUE)
                      ELSE IF Caught(computed)
                      THEN Outcome(val, Put(its, "unitPrice", None), TRUE)
                      ELSE Outcome(computed, its, TRUE)
    ELSE Outcome(val, Put(its, "unitPrice", val), calc)

\* _handle_kg_gross computing a unit price only while the audit flag is down.
KgGrossComputedWhileUnflagged(val, its, result, calc) ==
    IF IsNone(val)
    THEN LET alt_unit_price == get_value(result, AltUnitPricePath)
         IN  IF IsExc(alt_unit_price) THEN Outcome(alt_unit_price, its, calc)
             ELSE IF IsNumeric(alt_unit_price)
             THEN Outcome(val, Put(its, "unitPrice", alt_unit_price), calc)
             ELSE IF calc THEN Outcome(val, Put(its, "unitPrice", None), calc)
             ELSE LET computed == ComputedUnitPrice(its)
                  IN  IF ~IsExc(computed)
                      THEN Outcome(val, Put(its, "unitPrice", computed), TRUE)
                      ELSE IF Caught(computed)
                      THEN Outcome(val, Put(its, "unitPrice", None), calc)
                      ELSE Outcome(computed, its, calc)
    ELSE Outcome(val, Put(its, "unitPrice", val), calc)

_handle_kg_gross(val, its, result, calc) ==
    IF IsNone(val)
    THEN LET alt_unit_price == get_value(result, AltUnitPricePath)
         IN  IF IsExc(alt_unit_price) THEN Outcome(alt_unit_price, its, calc)
             ELSE IF IsNumeric(alt_unit_price)
             THEN Outcome(val, Put(its, "unitPrice", alt_unit_price), calc)
             ELSE LET computed == ComputedUnitPrice(its)
                  IN  IF ~IsExc(computed)
                      THEN Outcome(val, Put(its, "unitPrice", computed), TRUE)
                      ELSE IF Caught(computed)
                      THEN Outcome(val, Put(its, "unitPrice", None), calc)
                      ELSE Outcome(computed, its, calc)
    ELSE Outcome(val, Put(its, "unitPrice", val), calc)

----------------------------------------------------------------------------
(* Raw product documents *)

\* Marks a key that the document does not hold.
Absent == <<"absent">>

\* The mapping f without the keys marked absent.
DictOf(f) == Dict([k \in { x \in DOMAIN f : f[x] # Absent } |-> f[k]])

\* The document with the leaf values r; r.sellingPriceInfo, when given,
\* stands where the sellingPriceInfo mapping is expected.
MkDoc(r) ==
    LET spi == IF r.sellingPriceInfo # Absent THEN r.sellingPriceInfo
               ELSE DictOf(
                   "finalPrice" :> r.finalPrice @@ "shelfPrice" :> r.shelfPrice
                   @@ "basePrice" :> r.basePrice @@ "kgGross" :> r.kgGross
                   @@ "promotionLabels" :> r.promotionLabels
                   @@ "summaryDnrInfo" :>
                        (IF r.summaryDnrInfo # Absent THEN r.summaryDnrInfo
                         ELSE DictOf("name" :> r.promoName @@ "levels" :> r.levels))
                   @@ "basePriceData" :>
                        DictOf("pricePerUnit" :> DictOf("netPrice" :> r.netPrice)))
        store == DictOf(
                   "supplier" :> DictOf("supplierName" :> r.supplierName)
                   @@ "sellingPriceInfo" :> spi)
        bundle == DictOf(
                   "customerDisplayId" :> r.customerDisplayId
                   @@ "stores" :> DictOf("00057" :> store)
                   @@ "details" :> DictOf(
                        "longDescription" :> r.longDescription
                        @@ "features" :> r.features
                        @@ "nutritionalTable" :> r.nutritionalTable
                        @@ "characteristicsTable" :> r.characteristicsTable)
                   @@ "contentData" :> DictOf(
                        "weightPerPiece" :> r.weightPerPiece
                        @@ "netPieceWeight" :> r.netPieceWeight
                        @@ "netContentVolume" :> r.netContentVolume)
                   @@ "selector" :> DictOf("contentSize" :> r.contentSize)
                   @@ "isWeightArticle" :> r.isWeightArticle)
        variant == DictOf(
                   "description" :> r.description
                   @@ "categories" :> r.categories
                   @@ "bundleSelector" :> DictOf("0021" :> r.bundleSelector)
                   @@ "bundles" :> DictOf("0021" :> bundle))
    IN  DictOf("brandName" :> r.brandName
               @@ "variants" :> DictOf("0032" :> variant))

Pair(value, uom) == DictOf("value" :> value @@ "uom" :> uom)

\* A fully populated product.
BaseLeaves ==
    [ brandName |-> Str(<<"Acme">>),
      description |-> Str(<<"Pan", " ", "5", "0", "0", "g">>),
      categories |-> List(<< DictOf("name" :> Str(<<"Dairy", " ", "/", " ", "Cheese">>)) >>),
      customerDisplayId |-> Str(<<"1", "7">>),
      supplierName |-> Str(<<" ", "Acme", " ", "SA">>),
      longDescription |-> Str(<<"Bread">>),
      weightPerPiece |-> Pair(NumInt(1), KG),
      netPieceWeight |-> Absent,
      netContentVolume |-> Absent,
      bundleSelector |-> Str(<<"6", " ", "Caja">>),
      contentSize |-> NumInt(2),
      finalPrice |-> NumInt(4),
      shelfPrice |-> NumInt(2),
      basePrice |-> Num(3, 2),
      kgGross |-> Num(7, 2),
      netPrice |-> Absent,
      promotionLabels |-> Absent,
      promoName |-> Absent,
      levels |-> Absent,
      isWeightArticle |-> Str(<<"Weight">>),
      features |-> List(<< DictOf("label" :> IngredientsLabel
                                  @@ "leafs" :> List(<< DictOf("label" :> Str(<<"Harina">>)),
                                                        DictOf("label" :> Str(<<"Sal">>)) >>)) >>),
      nutritionalTable |-> DictOf("rows" :> List(<<
            DictOf("rowLabel" :> Str(<<"Sal">>)
                   @@ "cells" :> List(<< DictOf("value" :> Num(3, 2) @@ "unitOfMeasure" :> Str(<<"g">>)) >>)),
            DictOf("rowLabel" :> Str(<<"Otros">>)
                   @@ "cells" :> List(<< DictOf("value" :> NumInt(1) @@ "unitOfMeasure" :> Str(<<"g">>)) >>)) >>)),
      characteristicsTable |-> DictOf("rows" :> List(<<
            DictOf("rowLabel" :> Str(<<"Origen", " ">>)
                   @@ "cells" :> List(<< DictOf("text" :> Str(<<" ", "Soria">>)) >>)) >>)),
      summaryDnrInfo |-> Absent,
      sellingPriceInfo |-> Absent ]

MaxPrice == 4
MaxUnits == 2

\* Prices in steps of 0.50: 0, 0.5, ..., MaxPrice / 2.
Prices == { Num(k, 2) : k \in 0..MaxPrice }

\* What a document may hold where a number is expected.
NotANumber == { Absent, None, Str(<<"n", "/", "a">>) }

UnitsValues == { NumInt(k) : k \in 0..MaxUnits } \cup { Absent, None, Str(<<"2">>), Str(<<"a", "b">>) }

WeightValues ==
    { Absent, Pair(NumInt(1), KG), Pair(NumInt(500), GRAM), Pair(Absent, KG) }

TaxPrices == NotANumber \cup { NumInt(0), NumInt(4), Num(5, 2) }

Denominations ==
    { Absent, None,
      Str(<<"Pan", " ", "5", "0", "0", "g">>),
      Str(<<"Pan">>),
      Str(<<"Sal", " ", "0", "g">>),
      Str(<<"6", "x", "0", ".", "5", "K", "g">>) }

\* Products whose unit price is read from kgGross or from the alternate
\* net price, and products whose unit price has to be computed.
UnitPriceLeaves ==
    { [BaseLeaves EXCEPT !.kgGross = kg, !.netPrice = alt] :
          kg \in { None, Absent, Num(7, 2), NumInt(0) },
          alt \in { Absent, Num(11, 4), Str(<<"n", "/", "a">>) } }
    \cup
    { [BaseLeaves EXCEPT !.kgGross = None, !.netPrice = alt, !.finalPrice = tax,
                         !.contentSize = units, !.weightPerPiece = w, !.description = name] :
          alt \in { Absent, Str(<<"n", "/", "a">>) }, tax \in TaxPrices,
          units \in UnitsValues, w \in WeightValues, name \in Denominations }

\* Products whose offer price repeats the shelf price, with and without
\* promotion data, and products with a different offer price.
OfferLeaves ==
    { [BaseLeaves EXCEPT !.shelfPrice = price, !.basePrice = price,
                         !.promotionLabels = labels, !.levels = levels] :
          price \in Prices \cup NotANumber,
          labels \in { Absent, List(<<Str(<<"2x1">>)>>) },
          levels \in { Absent, List(<<NumInt(1)>>) } }
    \cup
    { [BaseLeaves EXCEPT !.shelfPrice = price, !.basePrice = price, !.summaryDnrInfo = NumInt(5)] :
          price \in Prices }
    \cup
    { [BaseLeaves EXCEPT !.shelfPrice = price, !.basePrice = offer,
                         !.contentSize = units, !.weightPerPiece = w] :
          price \in Prices \cup NotANumber, offer \in Prices \cup NotANumber,
          units \in UnitsValues, w \in WeightValues }

\* Values of an unexpected type or shape.
Misshapen ==
    { Absent, None, NumInt(5), Str(<<"x">>), EmptyList, List(<<NumInt(1)>>),
      EmptyDict, DictOf("a" :> NumInt(1)) }

\* Products with one leaf (or one inner mapping) replaced by such a value.
MisshapenLeaves ==
    { [BaseLeaves EXCEPT ![leaf] = v] : leaf \in DOMAIN BaseLeaves, v \in Misshapen }

\* {value, uom} pairs as contentData holds them.
MeasureValues == { Absent, None, NumInt(0), NumInt(3), NumInt(500), NumInt(2500) }
MeasureUnits == { Absent, None, GRAM, ML, KG, L, Str(<<"UN">>) }
Pairs == { Pair(v, u) : v \in MeasureValues, u \in MeasureUnits }

\* Products with each of weightPerPiece, netPieceWeight and netContentVolume
\* missing, empty or holding a pair.
MeasureLeaves ==
    { [BaseLeaves EXCEPT !.weightPerPiece = wpp, !.netPieceWeight = npw,
                         !.netContentVolume = ncv] :
          wpp \in Pairs \cup {Absent},
          npw \in { Absent, Pair(NumInt(500), GRAM) },
          ncv \in { Absent, EmptyDict, Pair(NumInt(500), ML) } }
    \cup
    { [BaseLeaves EXCEPT !.weightPerPiece = wpp, !.netPieceWeight = npw,
                         !.netContentVolume = ncv] :
          wpp \in { Absent, Pair(NumInt(3), KG) },
          npw \in Pairs \cup {Absent},
          ncv \in { Absent, EmptyDict, Pair(NumInt(500), ML) } }
    \cup
    { [BaseLeaves EXCEPT !.weightPerPiece = wpp, !.netPieceWeight = npw,
                         !.netContentVolume = ncv] :
          wpp \in { Absent, Pair(NumInt(3), KG) },
          npw \in { Absent, Pair(NumInt(500), GRAM) },
          ncv \in Pairs \cup {Absent} }

\* Rows of a nutritional table: a label the handler knows, one it does not
\* or none, and cells that are missing, empty or start with a measurement
\* or with a bare number.
MaxRows == 2

NutritionCells ==
    { Absent, EmptyList,
      List(<< DictOf("value" :> Num(3, 2) @@ "unitOfMeasure" :> Str(<<"g">>)) >>),
      List(<< DictOf("value" :> NumInt(7)), NumInt(1) >>),
      List(<< NumInt(5), DictOf("value" :> NumInt(9) @@ "unitOfMeasure" :> Str(<<"g">>)) >>) }

NutritionRows ==
    { DictOf("rowLabel" :> label @@ "cells" :> cells) :
          label \in { Absent, Str(<<"Sal">>), Str(<<"Grasas">>), Str(<<"Otros">>) },
          cells \in NutritionCells }

RECURSIVE RowLists(_)
RowLists(n) ==
    IF n = 0 THEN { <<>> }
    ELSE RowLists(n - 1)
         \cup { Append(rows, row) : rows \in { r \in RowLists(n - 1) : Len(r) = n - 1 },
                                    row \in NutritionRows }

\* Products with each nutritional table of at most MaxRows such rows.
NutritionLeaves ==
    { [BaseLeaves EXCEPT !.nutritionalTable = DictOf("rows" :> List(rows))] :
          rows \in RowLists(MaxRows) }

Documents ==
    { MkDoc(r) : r \in UnitPriceLeaves \cup OfferLeaves \cup MisshapenLeaves \cup MeasureLeaves
                      \cup NutritionLeaves }

----------------------------------------------------------------------------
(* Record Assembler *)

\* fields_map listing offerPrice and kgGross ahead of the fields they read.
FieldOrderPricesFirst ==
    << "productIdInSupermarket", "offerPrice", "kgGross", "denomination",
       "categoryInSupermarket", "brand", "manufacturer", "description",
       "measuringUnit", "units", "priceWithTax", "price", "isWeightArticle",
       "rawIngredients", "nutritionInformation", "characteristics", "promotion" >>

\* The keys of fields_map in the order the dictionary lists them.
FieldOrder ==
    << "productIdInSupermarket", "denomination", "categoryInSupermarket", "brand",
       "manufacturer", "description", "measuringUnit", "units", "priceWithTax",
       "price", "offerPrice", "kgGross", "isWeightArticle", "rawIngredients",
       "nutritionInformation", "characteristics", "promotion" >>

FieldKeys == { FieldOrder[i] : i \in 1..Len(FieldOrder) }

fields_map ==
    [ key \in FieldKeys |->
        CASE key = "productIdInSupermarket" -> Bundle \o <<"customerDisplayId">>
          [] key = "denomination"           -> <<"variants", "0032", "description">>
          [] key = "categoryInSupermarket"  -> <<"variants", "0032", "categories">>
          [] key = "brand"                  -> <<"brandName">>
          [] key = "manufacturer"           -> Store \o <<"supplier", "supplierName">>
          [] key = "description"            -> Bundle \o <<"details", "longDescription">>
          [] key = "measuringUnit"          -> Bundle \o <<"contentData", "weightPerPiece">>
          [] key = "units"                  -> Bundle \o <<"selector", "contentSize">>
          [] key = "priceWithTax"           -> SellingPriceInfo \o <<"finalPrice">>
          [] key = "price"                  -> SellingPriceInfo \o <<"shelfPrice">>
          [] key = "offerPrice"             -> SellingPriceInfo \o <<"basePrice">>
          [] key = "kgGross"                -> SellingPriceInfo \o <<"kgGross">>
          [] key = "isWeightArticle"        -> Bundle \o <<"isWeightArticle">>
          [] key = "rawIngredients"         -> Bundle \o <<"details", "features">>
          [] key = "nutritionInformation"   -> Bundle \o <<"details", "nutritionalTable">>
          [] key = "characteristics"        -> Bundle \o <<"details", "characteristicsTable">>
          [] key = "promotion"              -> SellingPriceInfo \o <<"summaryDnrInfo", "name">> ]

\* The keys of field_handlers.
HandledKeys ==
    { "categoryInSupermarket", "brand", "manufacturer", "measuringUnit",
      "isWeightArticle", "rawIngredients", "nutritionInformation",
      "characteristics", "offerPrice", "kgGross" }

IndexOf(key) == CHOOSE i \in 1..Len(FieldOrder) : FieldOrder[i] = key

\* A loop that leaves before the last key of fields_map.
AfterLeavingEarly(key) ==
    IF IndexOf(key) < Len(FieldOrder) - 1 THEN FieldOrder[IndexOf(key) + 1] ELSE "link"

\* Where the loop stands after the iteration for key: at the next key, or
\* past the loop, at the statement that builds the link.
After(key) ==
    IF IndexOf(key) < Len(FieldOrder) THEN FieldOrder[IndexOf(key) + 1] ELSE "link"

Procs == DOMAIN pc

\* path_chain had the loop passed the list itself: get_value pops from it.
PathChainConsumed(obj, chain) == GetValueRun(obj, chain).chain

\* path_chain after get_value(result, path_chain.copy()): the call consumes
\* the copy, and the list held by fields_map is as it was.
PathChainAfter(obj, chain) == chain

\* raw_value = self.get_value(result, path_chain.copy())
RawValue(p, key) == get_value(doc[p], paths[p][key])

\* The end of one loop iteration of extraction p for key: items[key] is set
\* to what the handler returned, or its exception leaves the function.
Iteration(p, key, out) ==
    /\ pc[p] = key
    /\ IF IsExc(out.ret)
       THEN /\ pc' = [pc EXCEPT ![p] = "raised"]
            /\ exc' = [exc EXCEPT ![p] = out.ret[2]]
            /\ items' = [items EXCEPT ![p] = out.items]
       ELSE /\ pc' = [pc EXCEPT ![p] = After(key)]
            /\ exc' = exc
            /\ items' = [items EXCEPT ![p] = Put(out.items, key, out.ret)]
    /\ CALCULATED' = out.calc
    /\ paths' = [paths EXCEPT ![p][key] = PathChainAfter(doc[p], @)]
    /\ UNCHANGED <<doc, logged, gvVars, callerVars, rq, sc, drv, eg>>

\* The iteration for key with a handler that only maps the raw value.
Handled(p, key, ret) ==
    Iteration(p, key, Outcome(IF IsExc(RawValue(p, key)) THEN RawValue(p, key) ELSE ret,
                              items[p], CALCULATED))

\* A field without a handler: the raw value is stored as it is.
StoreRaw ==
    \E p \in Procs :
    \E key \in FieldKeys \ HandledKeys : Handled(p, key, RawValue(p, key))

HandleCategory ==
    \E p \in Procs :
    Handled(p, "categoryInSupermarket",
            _handle_category_in_supermarket(RawValue(p, "categoryInSupermarket")))

HandleBrand == \E p \in Procs : Handled(p, "brand", _handle_brand(RawValue(p, "brand")))

HandleManufacturer ==
    \E p \in Procs :
    Handled(p, "manufacturer", _handle_manufacturer(RawValue(p, "manufacturer")))

HandleMeasuringUnit ==
    \E p \in Procs :
    Handled(p, "measuringUnit", _handle_measuring_unit(RawValue(p, "measuringUnit"), doc[p]))

HandleIsWeightArticle ==
    \E p \in Procs :
    Handled(p, "isWeightArticle", _handle_is_weight_article(RawValue(p, "isWeightArticle")))

HandleIngredients ==
    \E p \in Procs :
    Handled(p, "rawIngredients", _handle_ingredients(RawValue(p, "rawIngredients")))

HandleNutrition ==
    \E p \in Procs :
    Handled(p, "nutritionInformation", _handle_nutrition(RawValue(p, "nutritionInformation")))

HandleCharacteristics ==
    \E p \in Procs :
    Handled(p, "characteristics", _handle_characteristics(RawValue(p, "characteristics")))

HandleOfferPrice ==
    \E p \in Procs :
    LET raw == RawValue(p, "offerPrice")
    IN  Iteration(p, "offerPrice",
                  IF IsExc(raw) THEN Outcome(raw, items[p], CALCULATED)
                  ELSE _handle_offer_price(raw, items[p], doc[p], CALCULATED))

HandleKgGross ==
    \E p \in Procs :
    LET raw == RawValue(p, "kgGross")
    IN  Iteration(p, "kgGross",
                  IF IsExc(raw) THEN Outcome(raw, items[p], CALCULATED)
                  ELSE _handle_kg_gross(raw, items[p], doc[p], CALCULATED))

\* urljoin(URL_BASE, f"shop/pv/{product_id}/0032/0021/{name_for_url}")
Link(name_for_url) == Str(<<"URL_BASE", "shop/pv/", "product_id", "/0032/0021/">> \o name_for_url)

\* A return that blanks the unit price of a record when it writes the
\* diagnostic.
FinishBlankingWhenFlagged ==
    \E p \in Procs :
    /\ pc[p] = "link"
    /\ LET name == IGet(items[p], "denomination", EmptyStr)
       IN  IF ~IsStr(name)
           THEN /\ pc' = [pc EXCEPT ![p] = "raised"]
                /\ exc' = [exc EXCEPT ![p] = "AttributeError"]
                /\ UNCHANGED <<items, CALCULATED, logged>>
           ELSE /\ pc' = [pc EXCEPT ![p] = "done"]
                /\ items' = [items EXCEPT ![p] =
                       Put(IF CALCULATED THEN Put(items[p], "unitPrice", None) ELSE items[p],
                           "link", Link(Dashed(name[2])))]
                /\ logged' = [logged EXCEPT ![p] = CALCULATED]
                /\ CALCULATED' = FALSE
                /\ exc' = exc
    /\ UNCHANGED <<doc, gvVars, callerVars, paths, rq, sc, drv, eg>>

\* After the loop: the link, the diagnostic when the audit flag is set (the
\* flag is then reset), and the return of the record.
Finish ==
    \E p \in Procs :
    /\ pc[p] = "link"
    /\ LET name == IGet(items[p], "denomination", EmptyStr)
       IN  IF ~IsStr(name)
           THEN /\ pc' = [pc EXCEPT ![p] = "raised"]
                /\ exc' = [exc EXCEPT ![p] = "AttributeError"]
                /\ UNCHANGED <<items, CALCULATED, logged>>
           ELSE /\ pc' = [pc EXCEPT ![p] = "done"]
                /\ items' = [items EXCEPT ![p] = Put(items[p], "link", Link(Dashed(name[2])))]
                /\ logged' = [logged EXCEPT ![p] = CALCULATED]
                /\ CALCULATED' = FALSE
                /\ exc' = exc
    /\ UNCHANGED <<doc, gvVars, callerVars, paths, rq, sc, drv, eg>>

\* One extraction, of one document.
Init ==
    /\ \E d \in Documents : doc = [p \in {1} |-> d]
    /\ items = [p \in {1} |-> <<>>]
    /\ pc = [p \in {1} |-> FieldOrder[1]]
    /\ exc = [p \in {1} |-> "none"]
    /\ CALCULATED = FALSE
    /\ logged = [p \in {1} |-> FALSE]
    /\ gvObj = None
    /\ gvChain = <<>>
    /\ gvOut = Idle
    /\ entry = [p \in {1} |-> FALSE]
    /\ memo = <<>>
    /\ listing = <<>>
    /\ cursor = 1
    /\ output_items = <<>>
    /\ paths = [p \in DOMAIN pc |-> fields_map]
    /\ rq = Idle
    /\ sc = Idle
    /\ drv = Idle
    /\ eg = Idle

Next ==
    \/ StoreRaw
    \/ HandleCategory
    \/ HandleBrand
    \/ HandleManufacturer
    \/ HandleMeasuringUnit
    \/ HandleOfferPrice
    \/ HandleKgGross
    \/ HandleIsWeightArticle
    \/ HandleIngredients
    \/ HandleNutrition
    \/ HandleCharacteristics
    \/ Finish

Spec == Init /\ [][Next]_vars

----------------------------------------------------------------------------
(* Repeated and interleaved extractions *)

\* A few products: kgGross given; the unit price computed; the alternate
\* net price used; the computation impossible; the unit price computed and
\* the ingredients handler raising afterwards.
Products ==
    { MkDoc(r) : r \in
        { BaseLeaves,
          [BaseLeaves EXCEPT !.kgGross = None],
          [BaseLeaves EXCEPT !.kgGross = None, !.netPrice = Num(11, 4)],
          [BaseLeaves EXCEPT !.kgGross = None, !.finalPrice = Absent],
          [BaseLeaves EXCEPT !.kgGross = None, !.features = None] } }

\* parser_product_details is entered by p for the document d.
Enter(p, d) ==
    /\ doc' = [doc EXCEPT ![p] = d]
    /\ items' = [items EXCEPT ![p] = <<>>]
    /\ pc' = [pc EXCEPT ![p] = FieldOrder[1]]
    /\ exc' = [exc EXCEPT ![p] = "none"]
    /\ logged' = [logged EXCEPT ![p] = FALSE]
    /\ entry' = [entry EXCEPT ![p] = CALCULATED]
    /\ paths' = [paths EXCEPT ![p] = fields_map]

\* A caller that keeps what parser_product_details returned and calls it
\* again, for the same or another product, also after an exception.
CallAgain ==
    \E p \in Procs :
    \E d \in Products :
    /\ pc[p] \in {"done", "raised"}
    /\ memo' = IF pc[p] = "done" /\ <<doc[p], entry[p]>> \notin DOMAIN memo
               THEN Put(memo, <<doc[p], entry[p]>>, items[p])
               ELSE memo
    /\ Enter(p, d)
    /\ UNCHANGED <<CALCULATED, gvVars, listing, cursor, output_items, rq, sc, drv, eg>>

InitRepeat ==
    /\ doc \in [{1} -> Products]
    /\ items = [p \in {1} |-> <<>>]
    /\ pc = [p \in {1} |-> FieldOrder[1]]
    /\ exc = [p \in {1} |-> "none"]
    /\ CALCULATED = FALSE
    /\ logged = [p \in {1} |-> FALSE]
    /\ gvObj = None
    /\ gvChain = <<>>
    /\ gvOut = Idle
    /\ entry = [p \in {1} |-> FALSE]
    /\ memo = <<>>
    /\ listing = <<>>
    /\ cursor = 1
    /\ output_items = <<>>
    /\ paths = [p \in DOMAIN pc |-> fields_map]
    /\ rq = Idle
    /\ sc = Idle
    /\ drv = Idle
    /\ eg = Idle

NextRepeat ==
    \/ StoreRaw
    \/ HandleCategory
    \/ HandleBrand
    \/ HandleManufacturer
    \/ HandleMeasuringUnit
    \/ HandleOfferPrice
    \/ HandleKgGross
    \/ HandleIsWeightArticle
    \/ HandleIngredients
    \/ HandleNutrition
    \/ HandleCharacteristics
    \/ Finish
    \/ CallAgain

\* One caller assembling product after product.
SpecRepeat == InitRepeat /\ [][NextRepeat]_vars

InitInterleaved ==
    /\ doc \in [{1, 2} -> Products]
    /\ items = [p \in {1, 2} |-> <<>>]
    /\ pc = [p \in {1, 2} |-> FieldOrder[1]]
    /\ exc = [p \in {1, 2} |-> "none"]
    /\ CALCULATED = FALSE
    /\ logged = [p \in {1, 2} |-> FALSE]
    /\ gvObj = None
    /\ gvChain = <<>>
    /\ gvOut = Idle
    /\ entry = [p \in {1, 2} |-> FALSE]
    /\ memo = <<>>
    /\ listing = <<>>
    /\ cursor = 1
    /\ output_items = <<>>
    /\ paths = [p \in DOMAIN pc |-> fields_map]
    /\ rq = Idle
    /\ sc = Idle
    /\ drv = Idle
    /\ eg = Idle

\* Two extractions, each of its own document, their loop iterations
\* interleaved in any order; they share CALCULATED.
SpecInterleaved == InitInterleaved /\ [][Next]_vars

\* field_handlers[key](raw_value, items, result), or the raw value for a key
\* without a handler.
field_handlers(key, raw_value, its, result, calc) ==
    CASE key = "categoryInSupermarket" ->
             Outcome(_handle_category_in_supermarket(raw_value), its, calc)
      [] key = "brand" -> Outcome(_handle_brand(raw_value), its, calc)
      [] key = "manufacturer" -> Outcome(_handle_manufacturer(raw_value), its, calc)
      [] key = "measuringUnit" -> Outcome(_handle_measuring_unit(raw_value, result), its, calc)
      [] key = "isWeightArticle" -> Outcome(_handle_is_weight_article(raw_value), its, calc)
      [] key = "rawIngredients" -> Outcome(_handle_ingredients(raw_value), its, calc)
      [] key = "nutritionInformation" -> Outcome(_handle_nutrition(raw_value), its, calc)
      [] key = "characteristics" -> Outcome(_handle_characteristics(raw_value), its, calc)
      [] key = "offerPrice" -> _handle_offer_price(raw_value, its, result, calc)
      [] key = "kgGross" -> _handle_kg_gross(raw_value, its, result, calc)
      [] OTHER -> Outcome(raw_value, its, calc)

\* parser_product_details run on its own from the i-th entry of fields_map
\* on, with the record its: <<"record", items>> or <<"raised", kind>>.
RECURSIVE AssembleFrom(_, _, _, _)
AssembleFrom(result, its, i, calc) ==
    IF i > Len(FieldOrder)
    THEN LET name == IGet(its, "denomination", EmptyStr)
         IN  IF ~IsStr(name) THEN <<"raised", "AttributeError">>
             ELSE <<"record", Put(its, "link", Link(Dashed(name[2])))>>
    ELSE LET key == FieldOrder[i]
             raw_value == get_value(result, fields_map[key])
             out == IF IsExc(raw_value) THEN Outcome(raw_value, its, calc)
                    ELSE field_handlers(key, raw_value, its, result, calc)
         IN  IF IsExc(out.ret) THEN <<"raised", out.ret[2]>>
             ELSE AssembleFrom(result, Put(out.items, key, out.ret), i + 1, out.calc)

\* What parser_product_details gives for a document when nothing else runs.
Alone(result) == AssembleFrom(result, <<>>, 1, FALSE)

----------------------------------------------------------------------------
(* Product listing *)

\* What set_request and response.json() give for a product id: no response
\* (set_request returned False), a body that json() rejects, or the parsed
\* body.
Missing == <<"missing">>
Unparseable == <<"unparseable">>
Json(body) == <<"json", body>>

\* The parsed body holding document d as the result entry of the product.
Body(d) == DictOf("result" :> DictOf("product_id" :> d))

MaxListing == 3

\* Detail responses: the failures, bodies without a result entry for the
\* product, and the bodies of two products.
Responses ==
    { Missing, Unparseable,
      Json(EmptyDict),
      Json(DictOf("result" :> EmptyDict)),
      Json(DictOf("result" :> None)),
      Json(Body(EmptyDict)),
      Json(Body(MkDoc(BaseLeaves))),
      Json(Body(MkDoc([BaseLeaves EXCEPT !.kgGross = None, !.brandName = Absent]))) }

Listings == UNION { [1..n -> Responses] : n \in 0..MaxListing }

\* parser_product_details up to `items = {}`: the response is fetched and
\* parsed and the result entry of the product taken; without one the
\* function returns {}.
Fetch ==
    \E p \in Procs :
    /\ pc[p] = "fetch"
    /\ LET response == listing[cursor]
           parsed_json == response[2]
           results == DGet(parsed_json, "result", EmptyDict)
           result == DGet(results, "product_id", None)
       IN  IF response \in {Missing, Unparseable}
           THEN /\ pc' = [pc EXCEPT ![p] = "empty"]
                /\ UNCHANGED <<doc, exc>>
           ELSE IF ~IsDict(parsed_json) \/ ~IsDict(results)
           THEN /\ pc' = [pc EXCEPT ![p] = "raised"]
                /\ exc' = [exc EXCEPT ![p] = "AttributeError"]
                /\ doc' = doc
           ELSE IF ~Truthy(result)
           THEN /\ pc' = [pc EXCEPT ![p] = "empty"]
                /\ UNCHANGED <<doc, exc>>
           ELSE /\ pc' = [pc EXCEPT ![p] = FieldOrder[1]]
                /\ doc' = [doc EXCEPT ![p] = result]
                /\ exc' = exc
    /\ entry' = [entry EXCEPT ![p] = CALCULATED]
    /\ paths' = [paths EXCEPT ![p] = IF pc'[p] = FieldOrder[1] THEN fields_map ELSE @]
    /\ UNCHANGED <<items, CALCULATED, logged, gvVars, memo, listing, cursor, output_items, rq, sc, drv, eg>>

\* parser_products after the call for key_id returned: a non-empty record is
\* appended, and the loop goes to the next id or the function returns.
Collect ==
    \E p \in Procs :
    /\ pc[p] \in {"done", "empty"}
    /\ output_items' = IF pc[p] = "done" /\ DOMAIN items[p] # {}
                       THEN Append(output_items, items[p])
                       ELSE output_items
    /\ cursor' = cursor + 1
    /\ pc' = [pc EXCEPT ![p] = IF cursor < Len(listing) THEN "fetch" ELSE "returned"]
    /\ items' = [items EXCEPT ![p] = <<>>]
    /\ doc' = [doc EXCEPT ![p] = None]
    /\ logged' = [logged EXCEPT ![p] = FALSE]
    /\ UNCHANGED <<exc, CALCULATED, gvVars, entry, memo, listing, paths, rq, sc, drv, eg>>

InitListing ==
    /\ listing \in Listings
    /\ cursor = 1
    /\ output_items = <<>>
    /\ doc = [p \in {1} |-> None]
    /\ items = [p \in {1} |-> <<>>]
    /\ pc = [p \in {1} |-> IF listing = <<>> THEN "returned" ELSE "fetch"]
    /\ exc = [p \in {1} |-> "none"]
    /\ CALCULATED = FALSE
    /\ logged = [p \in {1} |-> FALSE]
    /\ gvObj = None
    /\ gvChain = <<>>
    /\ gvOut = Idle
    /\ entry = [p \in {1} |-> FALSE]
    /\ memo = <<>>
    /\ paths = [p \in DOMAIN pc |-> fields_map]
    /\ rq = Idle
    /\ sc = Idle
    /\ drv = Idle
    /\ eg = Idle

NextListing ==
    \/ Fetch
    \/ StoreRaw
    \/ HandleCategory
    \/ HandleBrand
    \/ HandleManufacturer
    \/ HandleMeasuringUnit
    \/ HandleOfferPrice
    \/ HandleKgGross
    \/ HandleIsWeightArticle
    \/ HandleIngredients
    \/ HandleNutrition
    \/ HandleCharacteristics
    \/ Finish
    \/ Collect

\* parser_products over one listing.
SpecListing == InitListing /\ [][NextListing]_vars

----------------------------------------------------------------------------
(* Gram weight of a display name *)

MaxName == 5

\* The characters of the names tried: a digit, the point, the pack sign and
\* the unit letters in both cases.
NameChars == {"2", ".", "x", "k", "K", "g", "G"}

\* The display names of at most MaxName characters.
Names == UNION { [1..n -> NameChars] : n \in 0..MaxName }

\* No other function is under way.
ExtractionIdle ==
    /\ doc = <<>>
    /\ items = <<>>
    /\ pc = <<>>
    /\ exc = <<>>
    /\ CALCULATED = FALSE
    /\ logged = <<>>
    /\ gvObj = None
    /\ gvChain = <<>>
    /\ gvOut = Idle
    /\ entry = <<>>
    /\ memo = <<>>
    /\ listing = <<>>
    /\ cursor = 1
    /\ output_items = <<>>
    /\ paths = <<>>

InitGrams ==
    /\ eg \in { [denomination |-> Str(name), result |-> Idle] : name \in Names }
    /\ rq = Idle
    /\ sc = Idle
    /\ drv = Idle
    /\ ExtractionIdle

\* One call _extract_grams(denomination).
ExtractGramsCall ==
    /\ eg.result = Idle
    /\ eg' = [eg EXCEPT !.result = _extract_grams(eg.denomination)]
    /\ UNCHANGED <<doc, items, pc, exc, CALCULATED, logged, gvVars, callerVars, paths, rq, sc, drv>>

NextGrams == ExtractGramsCall

SpecGrams == InitGrams /\ [][NextGrams]_vars

----------------------------------------------------------------------------
(* Transport: ProcessRequest.set_request *)

N_ATTEMPS == 10

\* A local variable that has no value yet.
Unbound == <<>>

\* What one attempt can meet: session.get returns a response with one of
\* these status codes, or raises one of these exceptions.
StatusCodes == {200, 204, 403, 404, 500, 503}
TransportErrors == {"ConnectionError", "Timeout", "RequestException"}
Attempts ==
    { <<"status", s>> : s \in StatusCodes } \cup { <<"raise", e>> : e \in TransportErrors }

\* response.raise_for_status() raises HTTPError.
RaisesForStatus(status_code) == status_code >= 400 /\ status_code < 600

\* msg as the except clause for the exception sets it.
MsgOf(e) ==
    CASE e = "HTTPError"        -> <<"Http Error: ">>
      [] e = "ConnectionError"  -> <<"Error Connecting: ">>
      [] e = "Timeout"          -> <<"Timeout Error: ">>
      [] e = "RequestException" -> <<"Something Else: ">>

\* A loop flag that any response clears.
LoopUntilAnyResponse(status_code) == FALSE

\* loop = (response.status_code != 200)
LoopAfter(status_code) == status_code # 200

\* return False if n == N_ATTEMPS else True
retry(n) == n # N_ATTEMPS

InitRequest ==
    /\ rq = [ pc |-> "try", count |-> 0, loop |-> TRUE, msg |-> Unbound,
              response |-> Unbound, attempts |-> 0, last |-> Unbound,
              ret |-> Unbound, exc |-> "none" ]
    /\ sc = Idle
    /\ drv = Idle
    /\ eg = Idle
    /\ ExtractionIdle

\* The try statement of one loop iteration: the request is sent and its
\* outcome handled.  rq.response is <<status code, number of the attempt
\* that received it>>; rq.attempts and rq.last record the attempts made and
\* the outcome of the latest.
Request ==
    /\ rq.pc = "try"
    /\ \E o \in Attempts :
       LET n == rq.attempts + 1
           sent == [rq EXCEPT !.attempts = n, !.last = o]
       IN  IF o[1] = "raise"
           THEN rq' = [sent EXCEPT !.msg = MsgOf(o[2]), !.pc = "check"]
           ELSE LET response == <<o[2], n>>
                IN  IF RaisesForStatus(o[2])
                    THEN IF o[2] = 404 \/ o[2] = 500
                         THEN rq' = [sent EXCEPT !.response = response,
                                                 !.msg = MsgOf("HTTPError"),
                                                 !.pc = "returned", !.ret = <<"False">>]
                         ELSE rq' = [sent EXCEPT !.response = response,
                                                 !.msg = MsgOf("HTTPError"),
                                                 !.pc = "check"]
                    ELSE rq' = [sent EXCEPT !.response = response,
                                            !.loop = LoopAfter(o[2]),
                                            !.pc = "check"]
    /\ UNCHANGED <<doc, items, pc, exc, CALCULATED, logged, gvVars, callerVars, paths, sc, drv, eg>>

\* `if loop:` taken: msg is printed and the attempt counted, and the loop
\* goes on unless retry says the attempts are used up, when
\* script_terminated exits.  Reading msg while it has no value raises
\* UnboundLocalError.
Retry ==
    /\ rq.pc = "check"
    /\ rq.loop
    /\ IF rq.msg = Unbound
       THEN rq' = [rq EXCEPT !.pc = "raised", !.exc = "UnboundLocalError"]
       ELSE LET count == rq.count + 1
            IN  rq' = [rq EXCEPT !.count = count,
                                 !.pc = IF retry(count) THEN "try" ELSE "exited"]
    /\ UNCHANGED <<doc, items, pc, exc, CALCULATED, logged, gvVars, callerVars, paths, sc, drv, eg>>

\* The loop ends and `return response` is reached.
Return ==
    /\ rq.pc = "check"
    /\ ~rq.loop
    /\ rq' = [rq EXCEPT !.pc = "returned", !.ret = <<"response">> \o rq.response]
    /\ UNCHANGED <<doc, items, pc, exc, CALCULATED, logged, gvVars, callerVars, paths, sc, drv, eg>>

NextRequest ==
    \/ Request
    \/ Retry
    \/ Return

SpecRequest == InitRequest /\ [][NextRequest]_vars

----------------------------------------------------------------------------
(* Driver: main.py *)

MaxExitCode == 3

SCRAPER_SCRIPT == "scraper_makro.py"
MERGE_SCRIPT == "merge_jsonl.py"
CSV_CONVERTER_SCRIPT == "json_to_csv.py"

\* The scripts in the order in which __main__ names them.
Scripts == <<SCRAPER_SCRIPT, MERGE_SCRIPT, CSV_CONVERTER_SCRIPT>>

\* What subprocess.run can do: the script exits with a code, with or without
\* text on stderr, or the call raises.
RunOutcomes ==
    { <<"exit", code, stderr>> : code \in 0..MaxExitCode, stderr \in {"", "text"} }
    \cup { <<"raise", "FileNotFoundError">>, <<"raise", "Exception">> }

\* run_script as it would be without check=True.
RunScriptUnchecked(outcome) == outcome[1] = "exit"

\* run_script(script_name): True when subprocess.run returned, which with
\* check=True it does for exit code 0 only; False for FileNotFoundError,
\* CalledProcessError and any other Exception.
run_script(outcome) == outcome[1] = "exit" /\ outcome[2] = 0

InitDriver ==
    /\ drv = [ pc |-> "create_folders", step |-> 1, started |-> <<>>,
               outcomes |-> <<>>, status |-> Unbound ]
    /\ rq = Idle
    /\ sc = Idle
    /\ eg = Idle
    /\ ExtractionIdle

\* create_folders(): sys.exit(1) on OSError.
CreateFolders ==
    /\ drv.pc = "create_folders"
    /\ \E made \in BOOLEAN :
           drv' = IF made THEN [drv EXCEPT !.pc = "run"]
                  ELSE [drv EXCEPT !.pc = "exited", !.status = <<1>>]
    /\ UNCHANGED <<doc, items, pc, exc, CALCULATED, logged, gvVars, callerVars, paths, rq, sc, eg>>

\* The subprocess of the step is started and ends; drv.started and
\* drv.outcomes record the scripts started and how each ended.
RunScript ==
    /\ drv.pc = "run"
    /\ \E outcome \in RunOutcomes :
           drv' = [drv EXCEPT !.started = Append(@, Scripts[drv.step]),
                              !.outcomes = Append(@, outcome),
                              !.pc = "check"]
    /\ UNCHANGED <<doc, items, pc, exc, CALCULATED, logged, gvVars, callerVars, paths, rq, sc, eg>>

\* `if not run_script(...)`: sys.exit(1), or on to the next step; after the
\* last step the program ends with status 0.
CheckStep ==
    /\ drv.pc = "check"
    /\ drv' = IF ~run_script(drv.outcomes[drv.step])
              THEN [drv EXCEPT !.pc = "exited", !.status = <<1>>]
              ELSE IF drv.step < Len(Scripts)
              THEN [drv EXCEPT !.pc = "run", !.step = @ + 1]
              ELSE [drv EXCEPT !.pc = "exited", !.status = <<0>>]
    /\ UNCHANGED <<doc, items, pc, exc, CALCULATED, logged, gvVars, callerVars, paths, rq, sc, eg>>

NextDriver ==
    \/ CreateFolders
    \/ RunScript
    \/ CheckStep

SpecDriver == InitDriver /\ [][NextDriver]_vars

----------------------------------------------------------------------------
(* Category pages: Scraper.scrape_categories *)

MaxAmount == 4
MaxPerPage == 2

\* The categories of the configuration.
Categories == <<"fruit", "dairy">>

\* What the request for one page can give: set_request returns False, or
\* ends the process, or returns a response whose body is not JSON, is JSON
\* but no mapping, or is a listing with or without an amount; the products
\* of a listing are parsed, or parser_products raises.
PageResponses ==
    { <<"False">>, <<"exit">>, <<"unparseable">>, <<"not a mapping">> }
    \cup { <<"listing", amount, parsed>> :
               amount \in {None} \cup { NumInt(a) : a \in 0..MaxAmount },
               parsed \in BOOLEAN }

\* number_pages with a page added whether or not a remainder is left.
NumberPagesPlusOne(amount, per_page) == (amount \div per_page) + 1

\* number_pages = (amount // MAX_ITEMS_PER_PAGE)
\*                + (1 if amount % MAX_ITEMS_PER_PAGE else 0)
NumberPages(amount, per_page) ==
    (amount \div per_page) + (IF amount % per_page # 0 THEN 1 ELSE 0)

InitPages ==
    /\ sc \in { [ pc |-> "request", category |-> 1, page |-> 1, number_pages |-> Unbound,
                  response |-> Unbound, MAX_ITEMS_PER_PAGE |-> m,
                  requested |-> <<>>, responses |-> <<>> ] :
                m \in 1..MaxPerPage }
    /\ rq = Idle
    /\ drv = Idle
    /\ eg = Idle
    /\ ExtractionIdle

\* `break`, and the for loop goes to the next category or ends.
NextCategory(s) ==
    IF s.category < Len(Categories)
    THEN [s EXCEPT !.category = @ + 1, !.page = 1, !.number_pages = Unbound,
                   !.requested = <<>>, !.responses = <<>>, !.pc = "request"]
    ELSE [s EXCEPT !.pc = "done"]

\* The page is requested: sc.requested and sc.responses record the pages
\* requested for the category at hand and what came back.
RequestPage ==
    /\ sc.pc = "request"
    /\ \E r \in PageResponses :
           sc' = [sc EXCEPT !.requested = Append(@, sc.page),
                            !.responses = Append(@, r),
                            !.response = r,
                            !.pc = IF r = <<"exit">> THEN "exited" ELSE "handle"]
    /\ UNCHANGED <<doc, items, pc, exc, CALCULATED, logged, gvVars, callerVars, paths, rq, drv, eg>>

\* The rest of the loop body: the response is checked and parsed, the
\* number of pages taken from the first amount, the products stored, and
\* the page advanced or the loop left.
HandlePage ==
    /\ sc.pc = "handle"
    /\ LET r == sc.response
       IN  IF r \in { <<"False">>, <<"unparseable">> }
           THEN sc' = NextCategory(sc)
           ELSE IF r = <<"not a mapping">>
           THEN sc' = [sc EXCEPT !.pc = "raised"]
           ELSE IF ~Truthy(r[2])
           THEN sc' = NextCategory(sc)
           ELSE LET number_pages == IF sc.number_pages = Unbound
                                    THEN <<NumberPages(r[2][2], sc.MAX_ITEMS_PER_PAGE)>>
                                    ELSE sc.number_pages
                    counted == [sc EXCEPT !.number_pages = number_pages]
                IN  IF ~r[3]
                    THEN sc' = [counted EXCEPT !.pc = "raised"]
                    ELSE IF sc.page < number_pages[1]
                    THEN sc' = [counted EXCEPT !.page = @ + 1, !.pc = "request"]
                    ELSE sc' = NextCategory(counted)
    /\ UNCHANGED <<doc, items, pc, exc, CALCULATED, logged, gvVars, callerVars, paths, rq, drv, eg>>

NextPages ==
    \/ RequestPage
    \/ HandlePage

SpecPages == InitPages /\ [][NextPages]_vars

\* Each statement of scrape_categories that can run does run.
SpecPagesLive == SpecPages /\ WF_vars(NextPages)

----------------------------------------------------------------------------
(* Properties *)

Done(p) == pc[p] = "done"
Raised(p) == pc[p] = "raised"
Stored(p, key) == key \in DOMAIN items[p]

\* The loop iteration of extraction p for key has run: it stored the field,
\* or its exception left the function.
Attempted(p, key) ==
    \/ Stored(p, key)
    \/ /\ Raised(p)
       /\ ~Stored(p, key)
       /\ IndexOf(key) > 1 => Stored(p, FieldOrder[IndexOf(key) - 1])

\* The path of key resolves to nothing in document d (for measuringUnit,
\* neither does the netPieceWeight path).
Unresolved(d, key) ==
    /\ get_value(d, fields_map[key]) = EmptyStr
    /\ key = "measuringUnit" =>
           get_value(d, Bundle \o <<"contentData", "netPieceWeight">>) = EmptyStr

\* r is the number n/d (d # 0) rounded to two decimals.
Rounds2(r, n, d) ==
    /\ IsNum(r)
    /\ 100 % r[3] = 0
    /\ 2 * Abs(100 * n - r[2] * (100 \div r[3]) * d) <= Abs(d)

\* C1 as stated: in every assembled record every key of fields_map is a
\* key, and a field that cannot be resolved holds None or the empty string.
C1_UnresolvedFieldsNoneOrEmpty ==
    \A p \in Procs : Done(p) =>
        /\ FieldKeys \subseteq DOMAIN items[p]
        /\ \A key \in FieldKeys :
               Unresolved(doc[p], key) => items[p][key] \in {None, EmptyStr}

\* C1 amended: in every assembled record every key of fields_map is a key;
\* a field that cannot be resolved holds None or the empty string, except
\* brand, which then holds the fallback "MAKRO".
C1_EveryFieldKeyPresent ==
    \A p \in Procs : Done(p) =>
        /\ FieldKeys \subseteq DOMAIN items[p]
        /\ \A key \in FieldKeys :
               Unresolved(doc[p], key) =>
                   IF key = "brand" THEN items[p][key] = MAKRO
                   ELSE items[p][key] \in {None, EmptyStr}

C1_Witness ==
    \E p \in Procs :
        /\ Done(p)
        /\ Unresolved(doc[p], "brand") /\ items[p]["brand"] = MAKRO
        /\ Unresolved(doc[p], "promotion") /\ items[p]["promotion"] = EmptyStr

\* C2: after record assembly unitPrice is set and is a number or None; it
\* never holds the empty-string sentinel or another non-numeric value.
C2_UnitPriceNumberOrNone ==
    \A p \in Procs : Done(p) =>
        /\ Stored(p, "unitPrice")
        /\ IsNum(items[p]["unitPrice"]) \/ IsNone(items[p]["unitPrice"])

\* C3: no exception escapes parser_product_details: whatever the document
\* holds, the extraction never ends by raising.
C3_NoExceptionEscapes == \A p \in Procs : ~Raised(p)

\* measuringUnit.value of a record, 1 if measuringUnit is absent.
MeasureValue(its) ==
    IF Truthy(its["measuringUnit"]) THEN DGet(its["measuringUnit"], "value", NumInt(1))
    ELSE NumInt(1)

\* The operands of priceWithTax * 1000 / (gramsPerUnit * measuringUnit.value
\* * units) are numbers for the record its, and the divisor is not zero.
Computable(its, units) ==
    /\ IsNum(its["priceWithTax"])
    /\ IsNum(_extract_grams(its["denomination"]))
    /\ IsNum(MeasureValue(its))
    /\ IsNum(units)
    /\ _extract_grams(its["denomination"])[2] * MeasureValue(its)[2] * units[2] # 0

\* up is round(priceWithTax * 1000 / (gramsPerUnit * measuringUnit.value * units), 2).
IsPricePerKilo(up, its, units) ==
    LET ptax  == its["priceWithTax"]
        grams == _extract_grams(its["denomination"])
        mv    == MeasureValue(its)
    IN  /\ Computable(its, units)
        /\ Rounds2(up, ptax[2] * 1000 * grams[3] * mv[3] * units[3],
                       ptax[3] * grams[2] * mv[2] * units[2])

\* C5: once the kgGross iteration has stored its field, unitPrice is the
\* resolved kgGross value if that is not None; otherwise the alternate net
\* price if that is numeric; only otherwise the value computed from
\* priceWithTax and the grams of the display name, or None.
C5_UnitPricePriority ==
    \A p \in Procs : Stored(p, "kgGross") =>
        LET val == RawValue(p, "kgGross")
            alt == get_value(doc[p], AltUnitPricePath)
            up  == items[p]["unitPrice"]
        IN  /\ Stored(p, "unitPrice")
            /\ ~IsNone(val) => up = val
            /\ IsNone(val) /\ IsNumeric(alt) => up = alt
            /\ IsNone(val) /\ ~IsNumeric(alt) =>
                   \/ up = None
                   \/ IsPricePerKilo(up, items[p], PyFloat(items[p]["units"]))

\* kgGross is null and the alternate net price is numeric and used, though
\* the record would have allowed a different computed value.
C5_Witness ==
    \E p \in Procs :
        /\ Done(p)
        /\ IsNone(RawValue(p, "kgGross"))
        /\ IsNum(get_value(doc[p], AltUnitPricePath))
        /\ items[p]["unitPrice"] = get_value(doc[p], AltUnitPricePath)
        /\ IsNum(ComputedUnitPrice(items[p]))
        /\ ComputedUnitPrice(items[p]) # items[p]["unitPrice"]

\* units as C6 takes it: 1 when it is missing or is not parsed as a number.
UnitsOrOne(its) ==
    IF IsNum(PyFloat(its["units"])) THEN PyFloat(its["units"]) ELSE NumInt(1)

\* The kgGross iteration of extraction p took the third step: the resolved
\* kgGross is None and the alternate net price is not numeric.
ComputedStep(p) ==
    /\ Attempted(p, "kgGross")
    /\ IsNone(RawValue(p, "kgGross"))
    /\ ~IsExc(get_value(doc[p], AltUnitPricePath))
    /\ ~IsNumeric(get_value(doc[p], AltUnitPricePath))

\* C6: in the third step, unitPrice is
\* round(priceWithTax * 1000 / (gramsPerUnit * unitCount), 2), with
\* unitCount = measuringUnit.value (1 if absent) * units, units being 1 when
\* it is missing or not parsed as a number.
C6_ComputedUnitPriceFormula ==
    \A p \in Procs :
        ComputedStep(p) /\ Computable(items[p], UnitsOrOne(items[p])) =>
            /\ Stored(p, "unitPrice")
            /\ IsPricePerKilo(items[p]["unitPrice"], items[p], UnitsOrOne(items[p]))

\* The third step cannot be carried out: a zero divisor, a priceWithTax that
\* is missing or not a number, a display name that is not a string, or
\* units that are not numeric.
CannotCompute(its) == ~Computable(its, PyFloat(its["units"]))

\* C7: when the third step cannot be carried out, _handle_kg_gross returns
\* normally and unitPrice is None: it does not raise.
C7_UncomputableUnitPriceIsNone ==
    \A p \in Procs :
        ComputedStep(p) /\ CannotCompute(items[p]) =>
            /\ Stored(p, "kgGross")
            /\ Stored(p, "unitPrice")
            /\ items[p]["unitPrice"] = None

\* One of promotionLabels and summaryDnrInfo.levels holds something.
PromotionMarked(d) ==
    \/ Truthy(get_value(d, SellingPriceInfo \o <<"promotionLabels">>))
    \/ Truthy(get_value(d, SellingPriceInfo \o <<"summaryDnrInfo", "levels">>))

\* C8: when the raw offer price equals the shelf price of the record, the
\* offerPrice returned is None if neither promotionLabels nor
\* summaryDnrInfo.levels is present and the raw offer price unchanged
\* otherwise; percentPromotion and unitPriceWithOffer are None.
C8_UnchangedPriceNeedsPromotion ==
    \A p \in Procs :
        Stored(p, "offerPrice") /\ RawValue(p, "offerPrice") = items[p]["price"] =>
            /\ ~PromotionMarked(doc[p]) => items[p]["offerPrice"] = None
            /\ PromotionMarked(doc[p]) => items[p]["offerPrice"] = RawValue(p, "offerPrice")
            /\ items[p]["percentPromotion"] = None
            /\ items[p]["unitPriceWithOffer"] = None

\* A numeric offer price equal to the shelf price is discarded for want of
\* a promotion marker.
C8_Witness ==
    \E p \in Procs :
        /\ Done(p)
        /\ IsNum(RawValue(p, "offerPrice"))
        /\ RawValue(p, "offerPrice") = items[p]["price"]
        /\ ~PromotionMarked(doc[p])
        /\ items[p]["offerPrice"] = None

\* The iteration for offerPrice ran the handler on a raw offer price that
\* differs from the shelf price.
DifferentOffer(p) ==
    /\ Attempted(p, "offerPrice")
    /\ ~IsExc(RawValue(p, "offerPrice"))
    /\ RawValue(p, "offerPrice") # items[p]["price"]

\* C9: when the raw offer price differs from the shelf price,
\* percentPromotion is round(1 - offerPrice / shelfPrice, 2), or None when
\* the shelf price is zero, missing or not a number or the offer price is
\* not a number; the offerPrice returned is the raw offer price.
C9_PercentPromotion ==
    \A p \in Procs : DifferentOffer(p) =>
        LET val   == RawValue(p, "offerPrice")
            shelf == items[p]["price"]
        IN  /\ Stored(p, "percentPromotion")
            /\ IF IsNum(val) /\ IsNum(shelf) /\ shelf[2] # 0
               THEN Rounds2(items[p]["percentPromotion"],
                            val[3] * shelf[2] - val[2] * shelf[3], val[3] * shelf[2])
               ELSE items[p]["percentPromotion"] = None
            /\ Stored(p, "offerPrice") => items[p]["offerPrice"] = val

\* shelf 2.00 and offer 1.50 give 0.25, and the offer price is kept.
C9_Witness ==
    \E p \in Procs :
        /\ Done(p)
        /\ items[p]["price"] = NumInt(2)
        /\ RawValue(p, "offerPrice") = Num(3, 2)
        /\ items[p]["percentPromotion"] = Num(1, 4)
        /\ items[p]["offerPrice"] = Num(3, 2)

\* C10: when the raw offer price differs from the shelf price,
\* unitPriceWithOffer is round(offerPrice / (measuringUnit.value * units), 2),
\* the divisor being 1 when measuringUnit is absent; with a zero divisor or
\* an operand that is not a number (units missing or not numeric included)
\* it is None, and the handler returns.
C10_UnitPriceWithOffer ==
    \A p \in Procs : DifferentOffer(p) =>
        LET val   == RawValue(p, "offerPrice")
            mv    == MeasureValue(items[p])
            units == IF Truthy(items[p]["measuringUnit"]) THEN PyFloat(items[p]["units"])
                     ELSE NumInt(1)
        IN  /\ Stored(p, "offerPrice")
            /\ IF IsNum(val) /\ IsNum(mv) /\ IsNum(units) /\ mv[2] * units[2] # 0
               THEN Rounds2(items[p]["unitPriceWithOffer"],
                            val[2] * mv[3] * units[3], val[3] * mv[2] * units[2])
               ELSE items[p]["unitPriceWithOffer"] = None

\* The fields the offerPrice handler and the kgGross handler read.
ReadByOfferPrice == { "price", "measuringUnit", "units" }
ReadByKgGross ==
    { "denomination", "measuringUnit", "units", "priceWithTax", "price", "offerPrice" }

\* C11: the handlers run in the order of fields_map: when the offerPrice
\* handler is about to run the record holds price, measuringUnit and units;
\* when the kgGross handler is about to run it holds denomination,
\* measuringUnit, units, priceWithTax, price and offerPrice; and every key
\* stored so far precedes the key the loop stands at.
C11_HandlersRunInDeclaredOrder ==
    \A p \in Procs :
        /\ pc[p] = "offerPrice" => ReadByOfferPrice \subseteq DOMAIN items[p]
        /\ pc[p] = "kgGross" => ReadByKgGross \subseteq DOMAIN items[p]
        /\ pc[p] \in FieldKeys =>
               \A key \in FieldKeys :
                   Stored(p, key) <=> IndexOf(key) < IndexOf(pc[p])

\* The kgGross handler has run on a record holding the fields it reads and
\* computed the unit price from them.
C11_Witness ==
    \E p \in Procs :
        /\ pc[p] = "isWeightArticle"
        /\ ReadByKgGross \subseteq DOMAIN items[p]
        /\ IsNone(items[p]["kgGross"])
        /\ IsNum(items[p]["unitPrice"])
        /\ IsNum(items[p]["unitPriceWithOffer"])

\* The three contentData entries of a document.
WeightPerPiece(d) == get_value(d, Bundle \o <<"contentData", "weightPerPiece">>)
NetPieceWeight(d) == get_value(d, Bundle \o <<"contentData", "netPieceWeight">>)
NetContentVolume(d) == get_value(d, Bundle \o <<"contentData", "netContentVolume">>)

\* The pair _handle_measuring_unit passes to parser_measuring.
PassedPair(d) == IF Truthy(WeightPerPiece(d)) THEN WeightPerPiece(d) ELSE NetPieceWeight(d)

\* The pair that decides value and unit.
AuthoritativePair(d) ==
    IF Truthy(NetContentVolume(d)) THEN NetContentVolume(d) ELSE PassedPair(d)

\* An entry of a pair, None when the pair does not hold it.
Entry(pair, k) == IF IsDict(pair) /\ k \in DOMAIN pair[2] THEN pair[2][k] ELSE None

\* The unit and value of a normalised measurement.
UnitAndValue(m) == <<m[2]["unit"], m[2]["value"]>>

\* The unit and value the normalisation rules give for a pair.
Normalised(pair) ==
    LET raw == Entry(pair, "value")
        uom == Entry(pair, "uom")
    IN  << IF uom = GRAM THEN KG ELSE IF uom = ML THEN L
           ELSE IF uom = None THEN EmptyStr ELSE uom,
           IF ~IsNum(raw) THEN NumInt(0)
           ELSE IF uom \in {GRAM, ML} THEN Num(raw[2], raw[3] * 1000)
           ELSE raw >>

\* The measuringUnit iteration of extraction p stored a measurement.
Measured(p) == Stored(p, "measuringUnit") /\ IsDict(items[p]["measuringUnit"])

\* C17: by the unit code of the authoritative pair: GRAM gives unit "KG" and
\* value raw/1000, ML gives "L" and raw/1000, KG and L keep unit and raw
\* value, any other unit is passed through ("" if absent) with the raw
\* value; an absent raw value gives 0.
C17_UnitCodeMapping ==
    \A p \in Procs : Measured(p) =>
        LET raw   == Entry(AuthoritativePair(doc[p]), "value")
            uom   == Entry(AuthoritativePair(doc[p]), "uom")
            unit  == items[p]["measuringUnit"][2]["unit"]
            value == items[p]["measuringUnit"][2]["value"]
        IN  /\ uom = GRAM => unit = KG
            /\ uom = ML => unit = L
            /\ uom \in {KG, L} => unit = uom
            /\ uom \notin {GRAM, ML, KG, L, None} => unit = uom
            /\ uom = None => unit = EmptyStr
            /\ raw = None => value = NumInt(0)
            /\ IsNum(raw) /\ uom \in {GRAM, ML} => value = Num(raw[2], raw[3] * 1000)
            /\ IsNum(raw) /\ uom \notin {GRAM, ML} => value = raw

\* GRAM 2500 gives KG 2.5.
C17_Witness ==
    \E p \in Procs :
        /\ Measured(p)
        /\ AuthoritativePair(doc[p]) = Pair(NumInt(2500), GRAM)
        /\ UnitAndValue(items[p]["measuringUnit"]) = <<KG, Num(5, 2)>>

\* C18: when netContentVolume is non-empty, value and unit come from it and
\* not from the pair parser_measuring was called with; when it is absent
\* or empty they come from the pair passed.
C18_NetContentVolumePreferred ==
    \A p \in Procs : Measured(p) =>
        /\ Truthy(NetContentVolume(doc[p])) =>
               UnitAndValue(items[p]["measuringUnit"]) = Normalised(NetContentVolume(doc[p]))
        /\ ~Truthy(NetContentVolume(doc[p])) =>
               UnitAndValue(items[p]["measuringUnit"]) = Normalised(PassedPair(doc[p]))

\* netContentVolume overrides a pair that came from the netPieceWeight
\* fallback and would have given something else.
C18_Witness ==
    \E p \in Procs :
        /\ Measured(p)
        /\ ~Truthy(WeightPerPiece(doc[p]))
        /\ Truthy(NetPieceWeight(doc[p]))
        /\ Truthy(NetContentVolume(doc[p]))
        /\ Normalised(NetContentVolume(doc[p])) # Normalised(NetPieceWeight(doc[p]))
        /\ UnitAndValue(items[p]["measuringUnit"]) = Normalised(NetContentVolume(doc[p]))

\* C19: measuringUnit is normalised when weightPerPiece is non-empty, and
\* otherwise when netPieceWeight is non-empty (from that pair unless
\* netContentVolume takes over); it is None when both are empty, whatever
\* netContentVolume holds.
C19_MeasuringUnitFallback ==
    \A p \in Procs : Stored(p, "measuringUnit") =>
        LET wpp == WeightPerPiece(doc[p])
            npw == NetPieceWeight(doc[p])
            ncv == NetContentVolume(doc[p])
            mu  == items[p]["measuringUnit"]
        IN  /\ ~Truthy(wpp) /\ ~Truthy(npw) => mu = None
            /\ Truthy(wpp) \/ Truthy(npw) => IsDict(mu)
            /\ Truthy(wpp) /\ ~Truthy(ncv) => UnitAndValue(mu) = Normalised(wpp)
            /\ ~Truthy(wpp) /\ Truthy(npw) /\ ~Truthy(ncv) => UnitAndValue(mu) = Normalised(npw)

\* weightPerPiece is empty and netPieceWeight supplies the measurement.
C19_Witness ==
    \E p \in Procs :
        /\ Measured(p)
        /\ ~Truthy(WeightPerPiece(doc[p]))
        /\ NetPieceWeight(doc[p]) = Pair(NumInt(500), GRAM)
        /\ ~Truthy(NetContentVolume(doc[p]))
        /\ UnitAndValue(items[p]["measuringUnit"]) = <<KG, Num(1, 2)>>

C12_SameDocumentSameRecord ==
    \A p \in Procs : Done(p) =>
        \A flag \in BOOLEAN :
            <<doc[p], flag>> \in DOMAIN memo => items[p] = memo[<<doc[p], flag>>]

\* A product whose unit price is computed is assembled a second time, after
\* other products.
C12_Witness ==
    \E p \in Procs :
        /\ Done(p)
        /\ ComputedStep(p) /\ IsNum(items[p]["unitPrice"])
        /\ <<doc[p], entry[p]>> \in DOMAIN memo
        /\ Cardinality({ k[1] : k \in DOMAIN memo }) >= 3

\* C13: an assembly entered with the audit flag at one value returns the
\* field values returned for the same document by an assembly entered with
\* the flag at the other value; the flag decides only the diagnostic.
C13_FlagDoesNotReachRecord ==
    \A p \in Procs : Done(p) /\ <<doc[p], ~entry[p]>> \in DOMAIN memo =>
        \A key \in DOMAIN items[p] \cup DOMAIN memo[<<doc[p], ~entry[p]>>] :
            /\ key \in DOMAIN items[p]
            /\ key \in DOMAIN memo[<<doc[p], ~entry[p]>>]
            /\ items[p][key] = memo[<<doc[p], ~entry[p]>>][key]

\* A product whose unit price is read from kgGross, entered with the flag
\* up: the diagnostic is written, the record is the one returned with the
\* flag down.
C13_Witness ==
    \E p \in Procs :
        /\ Done(p)
        /\ entry[p]
        /\ logged[p]
        /\ ~ComputedStep(p)
        /\ <<doc[p], FALSE>> \in DOMAIN memo
        /\ items[p] = memo[<<doc[p], FALSE>>]

\* C15: CALCULATED is False whenever parser_product_details has finished,
\* by return or by exception, and the diagnostic is written for a product
\* only if the unit price of that product was computed.
C15_FlagResetOnEveryExit ==
    \A p \in Procs :
        /\ Done(p) \/ Raised(p) => ~CALCULATED
        /\ Done(p) /\ logged[p] => ComputedStep(p) /\ IsNum(items[p]["unitPrice"])

\* C16: with the extractions of two products interleaved, each ends as it
\* ends when run alone: with the same record, or with the same exception.
C16_InterleavingKeepsRecords ==
    \A p \in Procs :
        /\ Done(p) => Alone(doc[p]) = <<"record", items[p]>>
        /\ Raised(p) => Alone(doc[p]) = <<"raised", exc[p]>>

\* An extraction whose unit price comes from kgGross returns its record
\* after the other extraction has raised the flag, which is still up.
C16_Witness ==
    \E p, q \in Procs :
        /\ p # q
        /\ Done(p)
        /\ ~ComputedStep(p)
        /\ pc[q] \in FieldKeys \cup {"link"}
        /\ CALCULATED
        /\ Alone(doc[p]) = <<"record", items[p]>>

\* The response holds no result entry for the product: it is missing, is
\* not parseable, or its body has none.
NoResultEntry(response) ==
    \/ response \in {Missing, Unparseable}
    \/ ~Truthy(get_value(response[2], <<"result", "product_id">>))

\* The records of the products of a listing that have a result entry, in
\* listing order.
RECURSIVE RecordsOf(_)
RecordsOf(responses) ==
    IF responses = <<>> THEN <<>>
    ELSE IF NoResultEntry(Head(responses)) THEN RecordsOf(Tail(responses))
    ELSE <<Alone(get_value(Head(responses)[2], <<"result", "product_id">>))[2]>>
             \o RecordsOf(Tail(responses))

\* C20: a product whose response is missing, unparseable or without a
\* result entry yields no record and nothing else: no exception leaves its
\* call, and parser_products returns the records of the other products,
\* one each, in listing order.
C20_FailedProductIsSkipped ==
    \A p \in Procs :
        /\ Raised(p) => ~NoResultEntry(listing[cursor])
        /\ pc[p] = "empty" => NoResultEntry(listing[cursor])
        /\ pc[p] = "returned" => output_items = RecordsOf(listing)

----------------------------------------------------------------------------
(* Failure containment in the promotion evaluator *)

\* The operands of 1 - offerPrice / shelfPrice are numbers for extraction p
\* and the shelf price is not zero.
PercentComputable(p) ==
    /\ IsNum(RawValue(p, "offerPrice"))
    /\ IsNum(items[p]["price"])
    /\ items[p]["price"][2] # 0

\* The units operand of unitPriceWithOffer for extraction p.
OfferUnits(p) ==
    IF Truthy(items[p]["measuringUnit"]) THEN PyFloat(items[p]["units"]) ELSE NumInt(1)

\* The operands of offerPrice / (measuringUnit.value * units) are numbers
\* for extraction p and the divisor is not zero.
WithOfferComputable(p) ==
    /\ IsNum(RawValue(p, "offerPrice"))
    /\ IsNum(MeasureValue(items[p]))
    /\ IsNum(OfferUnits(p))
    /\ MeasureValue(items[p])[2] * OfferUnits(p)[2] # 0

\* The record of extraction p as it would be had neither promotion field
\* been computed.
WithoutPromotion(p) ==
    Put(Put(items[p], "unitPriceWithOffer", None), "percentPromotion", None)

\* C21: when the raw offer price differs from the shelf price and one of
\* percentPromotion and unitPriceWithOffer cannot be computed, the other is
\* computed as usual, the handler returns the raw offer price, price,
\* priceWithTax, units and measuringUnit keep the values extracted for them,
\* and the unitPrice derived later is the one derived without the failure.
C21_FailureStaysLocal ==
    \A p \in Procs : DifferentOffer(p) /\ ~(PercentComputable(p) /\ WithOfferComputable(p)) =>
        LET val   == RawValue(p, "offerPrice")
            shelf == items[p]["price"]
            mv    == MeasureValue(items[p])
            units == OfferUnits(p)
        IN  /\ Stored(p, "offerPrice") /\ items[p]["offerPrice"] = val
            /\ PercentComputable(p) =>
                   Rounds2(items[p]["percentPromotion"],
                           val[3] * shelf[2] - val[2] * shelf[3], val[3] * shelf[2])
            /\ WithOfferComputable(p) =>
                   Rounds2(items[p]["unitPriceWithOffer"],
                           val[2] * mv[3] * units[3], val[3] * mv[2] * units[2])
            /\ \A key \in {"price", "priceWithTax", "units"} :
                   items[p][key] = RawValue(p, key)
            /\ items[p]["measuringUnit"]
                   = _handle_measuring_unit(RawValue(p, "measuringUnit"), doc[p])
            /\ Stored(p, "kgGross") =>
                   items[p]["unitPrice"]
                       = _handle_kg_gross(RawValue(p, "kgGross"), WithoutPromotion(p),
                                          doc[p], FALSE).items["unitPrice"]

----------------------------------------------------------------------------
(* Nutrition table *)

\* The eight canonical nutrient keys and the row label of each.
CanonicalLabel ==
    [ calories            |-> "Valor energético kcal",
      protein             |-> "Proteínas",
      fat                 |-> "Grasas",
      sugars              |-> "de los cuales azúcares",
      carbohydrates       |-> "Hidratos de carbono",
      fiber               |-> "Fibra alimentaria",
      saturatedFattyAcids |-> "de las cuales saturadas",
      salt                |-> "Sal" ]

\* The rows of the raw nutritional table val.
TableRows(val) ==
    LET rows == DGet(val, "rows", EmptyList)
    IN  IF IsList(rows) THEN rows[2] ELSE <<>>

\* Row has the label of nutrient k and a first cell that is an object.
RowOf(row, k) ==
    /\ IsDict(row)
    /\ DGet(row, "rowLabel", None) = Str(<<CanonicalLabel[k]>>)
    /\ IsList(DGet(row, "cells", None))
    /\ DGet(row, "cells", None)[2] # <<>>
    /\ IsDict(DGet(row, "cells", None)[2][1])

\* The {value, unitOfMeasure} pair of the first cell of row.
FirstCellPair(row) ==
    LET cell == DGet(row, "cells", None)[2][1]
    IN  Dict([k \in {"value", "unit"} |->
                IF k = "value" THEN DGet(cell, "value", None)
                ELSE DGet(cell, "unitOfMeasure", None)])

\* C22: the table _handle_nutrition returns for a raw table has no keys but
\* canonical nutrient keys; a key is in it exactly when some row has the
\* matching label and a first cell that is an object, and its value is the
\* {value, unitOfMeasure} pair of the first cell of the last such row; rows
\* with other labels and nutrients without a row add nothing.
C22_NutritionTableKeys ==
    \A p \in Procs : Stored(p, "nutritionInformation") /\ IsDict(RawValue(p, "nutritionInformation")) =>
        LET table == items[p]["nutritionInformation"]
            rows  == TableRows(RawValue(p, "nutritionInformation"))
        IN  /\ IsDict(table)
            /\ DOMAIN table[2] \subseteq DOMAIN CanonicalLabel
            /\ \A k \in DOMAIN CanonicalLabel :
                   LET matching == { i \in DOMAIN rows : RowOf(rows[i], k) }
                   IN  /\ k \in DOMAIN table[2] <=> matching # {}
                       /\ \A i \in matching :
                              (\A j \in matching : j <= i) =>
                                  table[2][k] = FirstCellPair(rows[i])

\* A table with a salt row, then a row with an unknown label: only salt is
\* in the mapping.
C22_Witness ==
    \E p \in Procs :
        /\ Done(p)
        /\ Stored(p, "nutritionInformation")
        /\ IsDict(RawValue(p, "nutritionInformation"))
        /\ Len(TableRows(RawValue(p, "nutritionInformation"))) = 2
        /\ RowOf(TableRows(RawValue(p, "nutritionInformation"))[1], "salt")
        /\ DGet(TableRows(RawValue(p, "nutritionInformation"))[2], "rowLabel", None) = Str(<<"Otros">>)
        /\ DOMAIN items[p]["nutritionInformation"][2] = {"salt"}
        /\ items[p]["nutritionInformation"][2]["salt"]
               = Dict([k \in {"value", "unit"} |-> IF k = "value" THEN Num(3, 2) ELSE Str(<<"g">>)])

----------------------------------------------------------------------------
(* Inputs of the assembly *)

\* C28: no step of an assembly changes the key chains held by fields_map
\* or the raw product document: after each loop iteration and after the
\* return both are what they were before it.
C28_AssemblyLeavesInputs ==
    [][\A p \in Procs : pc[p] \in FieldKeys \cup {"link"} =>
           /\ doc'[p] = doc[p]
           /\ paths'[p] = paths[p]
           /\ paths[p] = fields_map]_vars

\* An assembly returned a record whose brand was read through the whole
\* chain of its path, and the path is still in fields_map.
C28_Witness ==
    \E p \in Procs :
        /\ Done(p)
        /\ Stored(p, "brand")
        /\ items[p]["brand"] = Str(<<"Acme">>)
        /\ GetValueRun(doc[p], fields_map["brand"]).chain = <<>>
        /\ paths[p]["brand"] = fields_map["brand"]
        /\ paths[p] = fields_map

----------------------------------------------------------------------------
(* Size tokens *)

\* s is a number: digits, or digits, a point and digits.
IsNumberText(s) ==
    \/ s # <<>> /\ \A i \in DOMAIN s : s[i] \in Digits
    \/ \E k \in DOMAIN s :
           /\ s[k] = "."
           /\ k > 1 /\ k < Len(s)
           /\ \A i \in DOMAIN s : i # k => s[i] \in Digits

\* The number that s writes.
NumberOfText(s) ==
    IF \E k \in DOMAIN s : s[k] = "."
    THEN LET k == CHOOSE i \in DOMAIN s : s[i] = "."
         IN  Decimal(SubSeq(s, 1, k - 1), SubSeq(s, k + 1, Len(s)))
    ELSE Decimal(s, <<>>)

\* s is the unit g or kg, in either case of each letter.
IsUnitText(s) ==
    \/ Len(s) = 1 /\ s[1] \in {"g", "G"}
    \/ Len(s) = 2 /\ s[1] \in {"k", "K"} /\ s[2] \in {"g", "G"}

\* 1000 for kg, 1 for g.
GramsPerUnit(s) == IF Len(s) = 2 THEN 1000 ELSE 1

\* s has the form "<weight><unit>", the unit starting at position b.
SinglePackText(s, b) ==
    /\ IsUnitText(SubSeq(s, b, Len(s)))
    /\ IsNumberText(SubSeq(s, 1, b - 1))

\* s has the form "<qty>x<weight><unit>", the pack sign at position a and
\* the unit starting at position b.
MultiPackText(s, a, b) ==
    /\ a < b
    /\ s[a] = "x"
    /\ IsUnitText(SubSeq(s, b, Len(s)))
    /\ IsNumberText(SubSeq(s, 1, a - 1))
    /\ IsNumberText(SubSeq(s, a + 1, b - 1))

\* s is a size token.
IsSizeToken(s) ==
    \E b \in DOMAIN s : SinglePackText(s, b) \/ \E a \in DOMAIN s : MultiPackText(s, a, b)

\* The gram weight of the size token s: weight * GramsPerUnit(unit), times
\* qty for a multi-pack.
GramsOfToken(s) ==
    LET b == CHOOSE e \in DOMAIN s : IsUnitText(SubSeq(s, e, Len(s)))
                                      /\ \A f \in DOMAIN s : IsUnitText(SubSeq(s, f, Len(s))) => e <= f
        perUnit == NumInt(GramsPerUnit(SubSeq(s, b, Len(s))))
    IN  IF \E a \in DOMAIN s : s[a] = "x"
        THEN LET a == CHOOSE e \in DOMAIN s : s[e] = "x"
             IN  PyMul(PyMul(NumberOfText(SubSeq(s, 1, a - 1)),
                             NumberOfText(SubSeq(s, a + 1, b - 1))), perUnit)
        ELSE PyMul(NumberOfText(SubSeq(s, 1, b - 1)), perUnit)

\* The size tokens of the name cs, each with the position of its first
\* character and its gram weight.
SizeTokens(cs) ==
    { [at |-> t[1], grams |-> GramsOfToken(SubSeq(cs, t[1], t[2]))] :
          t \in { u \in (DOMAIN cs) \X (DOMAIN cs) :
                      u[1] < u[2] /\ IsSizeToken(SubSeq(cs, u[1], u[2])) } }

\* C26: the gram weight _extract_grams returns for a display name is the
\* weight of its leftmost size token, and 1000 when the name holds no size
\* token.
C26_GramsOfLeftmostToken ==
    eg.result # Idle =>
        LET tokens == SizeTokens(eg.denomination[2])
        IN  IF tokens = {} THEN eg.result = NumInt(1000)
            ELSE \E t \in tokens :
                     /\ \A u \in tokens : t.at <= u.at
                     /\ eg.result = t.grams

\* "2x2Kg" weighs 4000 grams.
C26_Witness ==
    /\ eg.denomination = Str(<<"2", "x", "2", "K", "g">>)
    /\ eg.result = NumInt(4000)

----------------------------------------------------------------------------
(* Bounded retries *)

\* The attempt with outcome o failed: an exception, or a status other than 200.
FailedAttempt(o) == o # Unbound /\ (o[1] = "raise" \/ o[2] # 200)

\* C23: set_request makes at most 10 attempts; a failed attempt (a
\* connection error, a timeout, an HTTP error other than 404 and 500, a
\* status other than 200) is followed by a retry or, after the tenth, by
\* script_terminated, and by nothing else.
C23_BoundedAttempts ==
    /\ rq.attempts <= N_ATTEMPS
    /\ rq.pc = "exited" => rq.attempts = N_ATTEMPS /\ FailedAttempt(rq.last)
    /\ FailedAttempt(rq.last) /\ rq.ret # <<"False">> =>
           /\ rq.pc \in {"check", "try", "exited"}
           /\ rq.pc = "try" => rq.count = rq.attempts /\ rq.attempts < N_ATTEMPS

\* C27: set_request returns a response only when the latest attempt received
\* it with status 200; an attempt that fails with HTTP status 404 or 500
\* makes it return False at once, no retry counted after it.
C27_ReturnsOnlyFreshSuccess ==
    /\ rq.pc = "returned" /\ rq.ret # <<"False">> =>
           /\ rq.ret = <<"response", 200, rq.attempts>>
           /\ rq.last = <<"status", 200>>
    /\ rq.pc = "returned" /\ rq.ret = <<"False">> =>
           /\ rq.last \in {<<"status", 404>>, <<"status", 500>>}
           /\ rq.count = rq.attempts - 1
    /\ rq.last \in {<<"status", 404>>, <<"status", 500>>} =>
           rq.pc = "returned" /\ rq.ret = <<"False">>

\* After two failed attempts the third receives 200 and is returned.
C27_Witness ==
    /\ rq.pc = "returned"
    /\ rq.ret = <<"response", 200, 3>>
    /\ rq.count = 2

----------------------------------------------------------------------------
(* Step order of the driver *)

\* The subprocess ended with exit code 0.
StepSucceeded(outcome) == outcome[1] = "exit" /\ outcome[2] = 0

\* C25: the scripts started are scrape, merge, convert in this order, each
\* at most once; every script before the last one started succeeded; and
\* once a step has failed no other step is started and the driver exits with
\* status 1.
C25_StepsInOrderUntilFailure ==
    /\ Len(drv.started) <= 3
    /\ drv.started = SubSeq(<<"scraper_makro.py", "merge_jsonl.py", "json_to_csv.py">>,
                            1, Len(drv.started))
    /\ \A i \in DOMAIN drv.outcomes :
           ~StepSucceeded(drv.outcomes[i]) =>
               /\ i = Len(drv.started)
               /\ drv.pc \in {"check", "exited"}
               /\ drv.pc = "exited" => drv.status = <<1>>
    /\ drv.pc = "exited" /\ drv.status = <<0>> =>
           Len(drv.started) = 3 /\ \A i \in 1..3 : StepSucceeded(drv.outcomes[i])

\* The scraper succeeded, the merge step ended with exit code 2: the
\* converter was not started and the driver exited with status 1.
C25_Witness ==
    /\ drv.pc = "exited"
    /\ drv.status = <<1>>
    /\ drv.started = <<"scraper_makro.py", "merge_jsonl.py">>
    /\ StepSucceeded(drv.outcomes[1])
    /\ drv.outcomes[2] = <<"exit", 2, "text">>

----------------------------------------------------------------------------
(* Page order *)

\* The response is a listing with an amount that is neither missing nor zero.
GoodListing(r) == r[1] = "listing" /\ r[2] # None /\ r[2] # NumInt(0)

\* ceil(amount / per_page): the least n with n * per_page >= amount.
CeilDiv(amount, per_page) ==
    CHOOSE n \in 0..amount : n * per_page >= amount /\ \A m \in 0..(n - 1) : m * per_page < amount

\* The pages requested for the category at hand are 1, 2, 3, ... without a
\* gap or a repeat, none beyond the number of pages that the amount of the
\* first page gives, and none after a failed request, an unparseable
\* listing or a missing or zero amount.
PagesInOrder ==
    LET requested == sc.requested
        responses == sc.responses
    IN  /\ \A i \in DOMAIN requested : requested[i] = i
        /\ Len(responses) = Len(requested)
        /\ \A i \in DOMAIN responses : i < Len(responses) => GoodListing(responses[i])
        /\ Len(requested) > 1 =>
               Len(requested) <= CeilDiv(responses[1][2][2], sc.MAX_ITEMS_PER_PAGE)

\* The loop over the categories has ended: by its end, by an exception or
\* by the end of the process.
PagesEnded == sc.pc \in {"done", "raised", "exited"}

\* C24: for each category the pages requested are 1, 2, 3, ... in
\* increasing order, none twice and none beyond ceil(amount /
\* MAX_ITEMS_PER_PAGE) for the amount of the first page; the category is
\* left at a failed request, an unparseable listing or a missing or zero
\* amount; and the loop ends.
C24_PagesInOrderAndEnd ==
    /\ []PagesInOrder
    /\ <>PagesEnded

\* With two items per page and an amount of three on its first page the
\* second category was asked for pages 1 and 2, whatever amount the second
\* page gave.
C24_Witness ==
    /\ sc.pc = "done"
    /\ sc.category = 2
    /\ sc.MAX_ITEMS_PER_PAGE = 2
    /\ sc.requested = <<1, 2>>
    /\ sc.responses = << <<"listing", NumInt(3), TRUE>>, <<"listing", NumInt(4), TRUE>> >>

====
